---------------------------- MODULE Spec2Model ----------------------------
(***************************************************************************)
(* A model of pyfstat.py: the coefficient shift, the semi-coherent glitch  *)
(* F-statistic, the packing of the prior dictionary into free and fixed    *)
(* parameters, and the staged MCMC driver with its pickled checkpoint.     *)
(*                                                                         *)
(* Eight specifications share the module:                                  *)
(*   SpecFstat    one call of a glitch F-statistic of                      *)
(*                SemiCoherentGlitchSearch                                 *)
(*   SpecTheta    unpack_input_theta followed by logl calls                *)
(*   SpecLogp     unpack_input_theta followed by a logp call               *)
(*   Spec         constructions and run()s of MCMC searches on one pickle  *)
(*                path                                                     *)
(*   SpecShift    shift_coefficients there and back                        *)
(*   SpecSummary  get_max_twoF and get_median_stds of a sample set         *)
(*   SpecGrid     run() of GridSearch and of GridGlitchSearch              *)
(*   SpecSave     save_data of two searches on one pickle path, step by    *)
(*                step                                                     *)
(* Python positions (list indices, temperatures, walkers) are 0-based and  *)
(* are kept 0-based as values; TLA+ sequences are 1-based, so the element  *)
(* at Python position i of a list s is s[i+1].                             *)
(***************************************************************************)
EXTENDS Integers, Sequences, FiniteSets, TLC

VARIABLES
    \* ---- SpecFstat: one glitch F-statistic computation
    fin,          \* the search object's fields and the call's arguments
    fpc,          \* "ready" | "done" (compute_nglitch_fstat has returned) |
                  \* "single" (compute_glitch_fstat_single has returned)
    fcalls,       \* the calls made to run_computefstatistic_single_point
    fresult,      \* the value returned (twoFSum)
    \* ---- SpecTheta: the parameter packing of one MCMC search object
    tin,          \* the constructor's arguments (class, nglitch, binary, prior)
    tpc,          \* "new" | "ready" | "error"
    terr,         \* the error unpack_input_theta raised, or NoError
    theta_prior,  \* self.theta_prior
    theta_keys,   \* self.theta_keys
    theta_idxs,   \* self.theta_idxs (Python positions)
    fixed_theta,  \* self.fixed_theta
    ncalls,       \* logl / logp calls made so far
    logl_theta,   \* the proposal of the last logl call
    logl_args,    \* the arguments the last logl call gave the evaluator
    logp_theta,   \* the proposal of the last logp call
    logp_ret,     \* what the last logp call returned
    \* ---- Spec: the searches constructed and run on one pickle path
    nobj,         \* search objects constructed so far
    pc,           \* "none" | "constructed" | "sampling" | "done" | "failed"
    old_data_is_okay_to_use,   \* self.old_data_is_okay_to_use
    pickle,       \* the file at self.pickle_path
    pickle_old,   \* the file at self.pickle_path + ".old" (see backup_of)
    clock,        \* the time of the last write to the file system
    sft_mtime,    \* the modification time of the oldest matching SFT file
    nsft,         \* how often the SFT files have been rewritten
    stage,        \* run(): the stage being sampled (Python position j)
    istep,        \* run(): the steps the current run_mcmc call has made
    chain,        \* the sampler's stored steps (chain, lnprobability, lnlikelihood)
    p0,           \* run(): the walker ensemble the next stage starts from
    samples,      \* self.samples
    lnprobs,      \* self.lnprobs
    lnlikes,      \* self.lnlikes
    trace,        \* history: what run() has done so far
    nevals,       \* history: likelihood evaluations made by run()
    ctor_file,    \* history: the pickle file as check_old_data_is_okay_to_use saw it
    ctor_sft,     \* history: the SFT modification time it saw
    \* ---- SpecShift: a vector shifted by dT and back
    sh_in,        \* theta and dT
    sh_pc,        \* "ready" | "shifted" | "back"
    sh_out,       \* what the last shift_coefficients call returned
    \* ---- SpecSummary: the summaries of one sample set
    sm_in,        \* self.theta_keys, self.samples, self.lnlikes
    sm_pc,        \* "ready" | "done"
    sm_out,       \* what the summary method did: returned, raised, or hung
    \* ---- SpecGrid: one grid search object and its result file
    gin,          \* the constructor's arguments
    gpc,          \* "new" | "loop" | "done" | "error"
    input_data,   \* self.input_data
    gi,           \* run(): the rows of input_data the loop has visited
    data,         \* run(): the local list data
    counter,      \* run(): the local counter
    out_file,     \* the file at self.out_file
    self_data,    \* self.data
    gcalls,       \* history: the evaluator calls run() made
    gwrites,      \* history: how often run() wrote the file
    \* ---- SpecSave: the steps of save_data on one pickle path
    ck_inodes,    \* the files ever created: who wrote them, in what state
    ck_path,      \* the file at self.pickle_path (0: none)
    ck_old,       \* the file at self.pickle_path + ".old" (0: none)
    ck_pc,        \* per search: "idle" | "rename" | "open" | "write" | "error"
    ck_handle,    \* per search: the file it has open for writing (0: none)
    ck_n,         \* per search: the save_data calls it has begun
    ck_hist       \* history: what has happened on the path so far

fvars == <<fin, fpc, fcalls, fresult>>

tvars == <<tin, tpc, terr, theta_prior, theta_keys, theta_idxs, fixed_theta,
           ncalls, logl_theta, logl_args, logp_theta, logp_ret>>

rvars == <<nobj, pc, old_data_is_okay_to_use, pickle, pickle_old, clock, sft_mtime,
           nsft, stage, istep, chain, p0, samples, lnprobs, lnlikes, trace, nevals,
           ctor_file, ctor_sft>>

hvars == <<sh_in, sh_pc, sh_out>>

svars == <<sm_in, sm_pc, sm_out>>

gvars == <<gin, gpc, input_data, gi, data, counter, out_file, self_data, gcalls,
           gwrites>>

\* the variables of the specifications added to the first four
cvars == <<ck_inodes, ck_path, ck_old, ck_pc, ck_handle, ck_n, ck_hist>>

xvars == <<hvars, svars, gvars, cvars>>

vars == <<fvars, tvars, rvars, xvars>>

\* no file at a path
NoFile == [exists |-> FALSE]

NoP0 == [src |-> "none"]

\* no search has been constructed and nothing is on disk
RunIdle ==
    /\ nobj = 0
    /\ pc = "none"
    /\ old_data_is_okay_to_use = FALSE
    /\ pickle = NoFile
    /\ pickle_old = NoFile
    /\ clock = 0
    /\ sft_mtime = 0
    /\ nsft = 0
    /\ stage = 0
    /\ istep = 0
    /\ chain = <<>>
    /\ p0 = NoP0
    /\ samples = <<>>
    /\ lnprobs = <<>>
    /\ lnlikes = <<>>
    /\ trace = <<>>
    /\ nevals = 0
    /\ ctor_file = NoFile
    /\ ctor_sft = 0

\* no vector is being shifted
ShiftIdle ==
    /\ sh_in = [theta |-> <<>>, dT |-> 0]
    /\ sh_pc = "off"
    /\ sh_out = <<>>

\* no sample set is being summarised
SummaryIdle ==
    /\ sm_in = [theta_keys |-> <<>>, samples |-> <<>>, lnlikes |-> <<>>]
    /\ sm_pc = "off"
    /\ sm_out = [method |-> "none"]

\* no grid search object, no result file
GridIdle ==
    /\ gin = [cls |-> "none"]
    /\ gpc = "off"
    /\ input_data = <<>>
    /\ gi = 0
    /\ data = <<>>
    /\ counter = 0
    /\ out_file = [exists |-> FALSE]
    /\ self_data = <<>>
    /\ gcalls = <<>>
    /\ gwrites = 0

\* no save_data on the pickle path
SaveIdle ==
    /\ ck_inodes = <<>>
    /\ ck_path = 0
    /\ ck_old = 0
    /\ ck_pc = <<>>
    /\ ck_handle = <<>>
    /\ ck_n = <<>>
    /\ ck_hist = [on |-> FALSE]

OthersIdle ==
    /\ ShiftIdle
    /\ SummaryIdle
    /\ GridIdle
    /\ SaveIdle

\* no search object
ThetaIdle ==
    /\ tin = [cls |-> "none"]
    /\ tpc = "off"
    /\ terr = [type |-> "none", what |-> "", keys |-> <<>>]
    /\ theta_prior = <<>>
    /\ theta_keys = <<>>
    /\ theta_idxs = <<>>
    /\ fixed_theta = <<>>
    /\ ncalls = 0
    /\ logl_theta = <<>>
    /\ logl_args = <<>>
    /\ logp_theta = <<>>
    /\ logp_ret = "none"

(***************************************************************************)
(* Exact arithmetic.  The source computes in floating point; the model     *)
(* computes in the field the floats approximate.  A rational is a reduced  *)
(* pair <<numerator, denominator>>; a number is a polynomial in 2*pi with  *)
(* rational coefficients (2*pi is transcendental, so two numbers are equal *)
(* exactly when their coefficient sequences are), stored without trailing  *)
(* zero coefficients.                                                      *)
(***************************************************************************)
Abs(x) == IF x < 0 THEN -x ELSE x

\* a sequence given as a function on 1..n, as the tuple of its elements
AsSeq(f) == f \o <<>>

\* a function given by a rule, as the table of its values
AsTable(f) == f @@ <<>>

Max(a, b) == IF a >= b THEN a ELSE b

Min(a, b) == IF a <= b THEN a ELSE b

RECURSIVE GCD(_, _)
GCD(a, b) == IF b = 0 THEN a ELSE GCD(b, a % b)

Rat(n, d) ==
    LET g == GCD(Abs(n), Abs(d))
        s == IF d < 0 THEN -1 ELSE 1
    IN  <<(s * n) \div g, (s * d) \div g>>

R0 == <<0, 1>>

RAdd(x, y) == Rat(x[1] * y[2] + y[1] * x[2], x[2] * y[2])

RMul(x, y) == Rat(x[1] * y[1], x[2] * y[2])

RECURSIVE Trim(_)
Trim(p) ==
    IF p = <<>> THEN p
    ELSE IF p[Len(p)] = R0 THEN Trim(SubSeq(p, 1, Len(p) - 1))
    ELSE p

Coef(p, k) == IF k >= 1 /\ k <= Len(p) THEN p[k] ELSE R0

Num(i) == Trim(<<Rat(i, 1)>>)

NRat(r) == Trim(<<r>>)

\* c * (2*pi)^e
NTwoPiPow(c, e) ==
    Trim(AsSeq([k \in 1..(e + 1) |-> IF k = e + 1 THEN c ELSE R0]))

NAdd(x, y) ==
    Trim(AsSeq([k \in 1..Max(Len(x), Len(y)) |->
                    RAdd(Coef(x, k), Coef(y, k))]))

RECURSIVE ConvSum(_, _, _, _)
ConvSum(x, y, k, i) ==
    IF i > Len(x) THEN R0
    ELSE RAdd(RMul(x[i], Coef(y, k - i + 1)), ConvSum(x, y, k, i + 1))

NMul(x, y) ==
    IF x = <<>> \/ y = <<>> THEN <<>>
    ELSE Trim(AsSeq([k \in 1..(Len(x) + Len(y) - 1) |-> ConvSum(x, y, k, 1)]))

RECURSIVE factorial(_)
factorial(k) == IF k <= 0 THEN 1 ELSE k * factorial(k - 1)

RECURSIVE IntPow(_, _)
IntPow(b, k) == IF k <= 0 THEN 1 ELSE b * IntPow(b, k - 1)

\* a Python list or numpy vector of integers as a vector of numbers
NumVec(s) == AsSeq([k \in 1..Len(s) |-> Num(s[k])])

(***************************************************************************)
(* BaseSearchClass.shift_matrix and shift_coefficients.                    *)
(***************************************************************************)
\* the entries above the diagonal without the division by the factorial
shift_matrix_entry_NoFactorial(i, j, dT) ==
    IF i = j THEN Num(1)
    ELSE IF i > j THEN <<>>
    ELSE IF i = 0
         THEN NTwoPiPow(Rat(IntPow(dT, j - i), 1), 1)
         ELSE NRat(Rat(IntPow(dT, j - i), 1))

\* entry [i, j] of the matrix (i, j: Python positions 0..n-1)
shift_matrix_entry(i, j, dT) ==
    IF i = j THEN Num(1)
    ELSE IF i > j THEN <<>>
    ELSE IF i = 0
         THEN NTwoPiPow(Rat(IntPow(dT, j - i), factorial(j - i)), 1)
         ELSE NRat(Rat(IntPow(dT, j - i), factorial(j - i)))

shift_matrix(n, dT) ==
    AsSeq([i \in 1..n |->
              AsSeq([j \in 1..n |-> shift_matrix_entry(i - 1, j - 1, dT)])])

RECURSIVE DotRow(_, _, _)
DotRow(row, theta, j) ==
    IF j > Len(theta) THEN <<>>
    ELSE NAdd(NMul(row[j], theta[j]), DotRow(row, theta, j + 1))

\* np.dot(m, theta)
shift_coefficients(theta, dT) ==
    LET n == Len(theta)
        m == shift_matrix(n, dT)
    IN  AsSeq([i \in 1..n |-> DotRow(m[i], theta, 1)])

\* elementwise sum of two vectors of one length (numpy array + array or list)
VecAdd(a, b) == AsSeq([k \in 1..Len(a) |-> NAdd(a[k], b[k])])


(***************************************************************************)
(* Python list slicing: s[a:b] and s[a:] with negative positions counted   *)
(* from the end (and -0 = 0, so s[-0:] is the whole list).                 *)
(***************************************************************************)
PyPos(i, L) == IF i < 0 THEN Max(L + i, 0) ELSE Min(i, L)

PySlice(s, a, b) == SubSeq(s, PyPos(a, Len(s)) + 1, PyPos(b, Len(s)))

PySliceFrom(s, a) == SubSeq(s, PyPos(a, Len(s)) + 1, Len(s))

RECURSIVE SeqSum(_)
SeqSum(s) == IF s = <<>> THEN 0 ELSE Head(s) + SeqSum(Tail(s))

(***************************************************************************)
(* SemiCoherentGlitchSearch.compute_nglitch_fstat(F0, F1, F2, Alpha,       *)
(* Delta, *args).  self carries nglitch, tref, tstart, tend and the        *)
(* arguments; args is (delta_F0 x nglitch, delta_F1 x nglitch, tglitch x   *)
(* nglitch), as MCMCGlitchSearch.logl passes it.                           *)
(***************************************************************************)
tboundaries(self) ==
    <<self.tstart>> \o PySliceFrom(self.args, -self.nglitch) \o <<self.tend>>

delta_F0s(self) ==
    <<0>> \o PySlice(self.args, -3 * self.nglitch, -2 * self.nglitch)

delta_F1s(self) ==
    <<0>> \o PySlice(self.args, -2 * self.nglitch, -self.nglitch)

\* the glitch epoch the loop body of segment i (i > 0) shifts to and from:
\* the source uses te, the END of segment i
glitch_shift_epoch(self, i) == tboundaries(self)[i + 2]

\* theta_at_tref after the loop body of segment i (Python position)
RECURSIVE theta_at_tref(_, _)
theta_at_tref(self, i) ==
    IF i = 0 THEN NumVec(<<self.F0, self.F1, self.F2>>)
    ELSE LET te == glitch_shift_epoch(self, i)
             delta_theta ==
                 NumVec(<<delta_F0s(self)[i + 1], delta_F1s(self)[i + 1], 0>>)
             theta_at_glitch ==
                 shift_coefficients(theta_at_tref(self, i - 1), te - self.tref)
             theta_post_glitch_at_glitch == VecAdd(theta_at_glitch, delta_theta)
         IN  shift_coefficients(theta_post_glitch_at_glitch, self.tref - te)

\* the arguments of the i-th call of run_computefstatistic_single_point
fstat_call(self, i) ==
    LET th == theta_at_tref(self, i)
    IN  [tstart |-> tboundaries(self)[i + 1], tend |-> tboundaries(self)[i + 2],
         F0 |-> th[1], F1 |-> th[2], F2 |-> th[3],
         Alpha |-> self.Alpha, Delta |-> self.Delta]

\* the segments the loop visits: range(self.nglitch+1)
nglitch_segments(self) == 0..self.nglitch

\* the average of the values instead of their sum
twoFSum_of_Average(twoFVals) ==
    IF twoFVals = <<>> THEN 0 ELSE SeqSum(twoFVals) \div Len(twoFVals)

\* twoFSum from the values the evaluator returned, in call order
twoFSum_of(twoFVals) == 0 + SeqSum(twoFVals)

\* the calls the loop makes, in order
fstat_calls(self) ==
    AsSeq([k \in 1..Cardinality(nglitch_segments(self)) |->
              fstat_call(self, k - 1)])

\* the whole method: rets[i+1] is what the evaluator returns to call i
compute_nglitch_fstat(self, calls, rets) ==
    [calls |-> AsSeq([k \in 1..Len(calls) |->
                         [args |-> calls[k], ret |-> rets[k]]]),
     twoFSum |-> twoFSum_of(SubSeq(rets, 1, Len(calls)))]

(***************************************************************************)
(* SemiCoherentGlitchSearch.compute_glitch_fstat_single(F0, F1, F2, Alpha, *)
(* Delta, delta_F0, delta_F1, tglitch): self.args is (delta_F0, delta_F1,  *)
(* tglitch).                                                               *)
(***************************************************************************)
single_tglitch(self) == self.args[3]

single_theta_post_glitch(self) ==
    LET theta == NumVec(<<self.F0, self.F1, self.F2>>)
        delta_theta == NumVec(<<self.args[1], self.args[2], 0>>)
        theta_at_glitch ==
            shift_coefficients(theta, single_tglitch(self) - self.tref)
        theta_post_glitch_at_glitch == VecAdd(theta_at_glitch, delta_theta)
    IN  shift_coefficients(theta_post_glitch_at_glitch,
                           self.tref - single_tglitch(self))

\* the call for twoFsegA
single_call_A(self) ==
    LET theta == NumVec(<<self.F0, self.F1, self.F2>>)
    IN  [tstart |-> self.tstart, tend |-> single_tglitch(self),
         F0 |-> theta[1], F1 |-> theta[2], F2 |-> theta[3],
         Alpha |-> self.Alpha, Delta |-> self.Delta]

\* the call for twoFsegB
single_call_B(self) ==
    LET th == single_theta_post_glitch(self)
    IN  [tstart |-> single_tglitch(self), tend |-> self.tend,
         F0 |-> th[1], F1 |-> th[2], F2 |-> th[3],
         Alpha |-> self.Alpha, Delta |-> self.Delta]

\* the calls the method makes, in order: "if tglitch == self.tend: return
\* twoFsegA" comes before the second call
single_calls(self) ==
    IF single_tglitch(self) = self.tend THEN <<single_call_A(self)>>
    ELSE <<single_call_A(self), single_call_B(self)>>

\* the whole method: rets[i+1] is what the evaluator returns to call i
compute_glitch_fstat_single(self, calls, rets) ==
    [calls |-> AsSeq([k \in 1..Len(calls) |->
                         [args |-> calls[k], ret |-> rets[k]]]),
     twoF |-> IF Len(calls) = 1 THEN rets[1] ELSE rets[1] + rets[2]]

\* what the elements of the vector handed to shift_coefficients are:
\* theta = [F0, F1, F2] in both glitch statistics, [phi, F0, F1, F2] in
\* Writer, whose make_cff calls calculate_thetas
shifted_vector(caller) ==
    IF caller = "calculate_thetas" THEN <<"phi", "F0", "F1", "F2">>
    ELSE <<"F0", "F1", "F2">>

(***************************************************************************)
(* SpecFstat: Init draws the search fields and the arguments, one of  *)
(* the two actions applies its method once, the evaluator answering each   *)
(* call with any value of TwoFVals.                                        *)
(***************************************************************************)
MaxNglitch == 2

MaxTime == 3

TwoFVals == {1, 3}

RECURSIVE NonDecreasing(_)
NonDecreasing(s) ==
    Len(s) <= 1 \/ (s[1] <= s[2] /\ NonDecreasing(Tail(s)))

FstatInput(n, f2, d0, d1, tg) ==
    [nglitch |-> n, tref |-> 1, tstart |-> 0, tend |-> MaxTime,
     F0 |-> 5, F1 |-> 1, F2 |-> f2, Alpha |-> 7, Delta |-> 9,
     args |-> d0 \o d1 \o tg]

NoCalls == <<>>

InitFstat ==
    /\ \E n \in 0..MaxNglitch :
          \E f2 \in {0, 1}, d0 \in [1..n -> {0, 1}], d1 \in [1..n -> {0, 1}],
             tg \in {t \in [1..n -> 0..MaxTime] : NonDecreasing(t)} :
                fin = FstatInput(n, f2, d0, d1, tg)
    /\ fpc = "ready"
    /\ fcalls = NoCalls
    /\ fresult = 0
    /\ ThetaIdle
    /\ RunIdle
    /\ OthersIdle

ComputeNglitchFstat ==
    /\ fpc = "ready"
    /\ \E calls \in {fstat_calls(fin)} :
          \E rets \in [1..(fin.nglitch + 1) -> TwoFVals] :
             LET r == compute_nglitch_fstat(fin, calls, rets)
             IN  /\ fcalls' = r.calls
                 /\ fresult' = r.twoFSum
    /\ fpc' = "done"
    /\ UNCHANGED <<xvars, fin, tvars, rvars>>

\* nglitch = 1 is the case compute_glitch_fstat_single is written for
ComputeGlitchFstatSingle ==
    /\ fpc = "ready"
    /\ fin.nglitch = 1
    /\ \E calls \in {single_calls(fin)} :
          \E rets \in [1..Len(calls) -> TwoFVals] :
             LET r == compute_glitch_fstat_single(fin, calls, rets)
             IN  /\ fcalls' = r.calls
                 /\ fresult' = r.twoF
    /\ fpc' = "single"
    /\ UNCHANGED <<xvars, fin, tvars, rvars>>

NextFstat == ComputeNglitchFstat \/ ComputeGlitchFstatSingle

SpecFstat == InitFstat /\ [][NextFstat]_vars

(***************************************************************************)
(* Parameter packing: MCMCSearch.unpack_input_theta and                    *)
(* MCMCGlitchSearch.unpack_input_theta.                                    *)
(*                                                                         *)
(* A value of the prior dictionary is                                      *)
(*   [kind |-> "number", val |-> v]       a float, int or np.float64       *)
(*   [kind |-> "dict", type |-> .., ..]   a prior descriptor               *)
(*   [kind |-> "other"]                   any other Python type            *)
(***************************************************************************)
Rep(x, n) == AsSeq([k \in 1..n |-> x])

SeqSet(s) == {s[k] : k \in 1..Len(s)}

\* list.index(x): the first Python position of x in s (x is in s)
index(s, x) == (CHOOSE k \in 1..Len(s) : s[k] = x /\ \A l \in 1..(k - 1) : s[l] # x) - 1

glitch_keys == <<"delta_F0", "delta_F1", "tglitch">>

binary_keys == <<"asini", "period", "ecc", "tp", "argp">>

full_glitch_keys(nglitch) ==
    Rep("delta_F0", nglitch) \o Rep("delta_F1", nglitch) \o Rep("tglitch", nglitch)

full_theta_keys(self) ==
    IF self.cls = "MCMCSearch"
    THEN <<"tstart", "tend", "F0", "F1", "F2", "Alpha", "Delta">>
             \o (IF self.binary THEN binary_keys ELSE <<>>)
    ELSE <<"F0", "F1", "F2", "Alpha", "Delta">> \o full_glitch_keys(self.nglitch)

\* MCMCSearch.__init__ stores tstart and tend in the prior dictionary before
\* it unpacks; MCMCGlitchSearch.__init__ does not
init_theta_prior(self) ==
    IF self.cls = "MCMCSearch"
    THEN AsTable([k \in DOMAIN self.theta_prior \cup {"tstart", "tend"} |->
                     IF k = "tstart" THEN [kind |-> "number", val |-> self.tstart]
                     ELSE IF k = "tend" THEN [kind |-> "number", val |-> self.tend]
                     ELSE self.theta_prior[k]])
    ELSE self.theta_prior

\* every key popped once, the glitch keys too
pop_count_Once(self, key) ==
    1

\* how often the loop pops a key of the dictionary off full_theta_keys_copy
pop_count(self, key) ==
    IF self.cls = "MCMCGlitchSearch" /\ key \in SeqSet(glitch_keys)
    THEN self.nglitch ELSE 1

\* the errors the loop over the dictionary can raise: the loop stops at the
\* first key (in the dictionary's iteration order, which is arbitrary) whose
\* value has an unrecognised type or which list.index does not find
unpack_loop_errors(self, prior) ==
    {[type |-> "ValueError", what |-> "type not recognised", keys |-> <<k>>] :
        k \in {k \in DOMAIN prior : prior[k].kind = "other"}}
    \cup
    {[type |-> "ValueError", what |-> "is not in list", keys |-> <<k>>] :
        k \in {k \in DOMAIN prior :
                 /\ prior[k].kind # "other"
                 /\ pop_count(self, k) > 0
                 /\ k \notin SeqSet(full_theta_keys(self))}}

\* full_theta_keys_copy after the loop has popped every key of the dictionary
full_theta_keys_copy(self, prior) ==
    SelectSeq(full_theta_keys(self),
              LAMBDA k : ~(k \in DOMAIN prior /\ pop_count(self, k) > 0))

\* self.theta_keys as the loop leaves it.  The dictionary's iteration order
\* is arbitrary; the model takes the keys in descending canonical position
\* (the sort that follows makes the result the same for every order).
RECURSIVE raw_theta_keys_from(_, _, _)
raw_theta_keys_from(self, prior, order) ==
    IF order = <<>> THEN <<>>
    ELSE LET key == Head(order)
             mine ==
                 IF key \in DOMAIN prior /\ prior[key].kind = "dict"
                 THEN IF self.cls = "MCMCGlitchSearch" /\ key \in SeqSet(glitch_keys)
                      THEN Rep(key, self.nglitch) ELSE <<key>>
                 ELSE <<>>
         IN  mine \o raw_theta_keys_from(self, prior, Tail(order))

dict_order(self) ==
    IF self.cls = "MCMCSearch"
    THEN <<"argp", "tp", "ecc", "period", "asini",
           "Delta", "Alpha", "F2", "F1", "F0", "tend", "tstart">>
    ELSE <<"tglitch", "delta_F1", "delta_F0", "Delta", "Alpha", "F2", "F1", "F0">>

raw_theta_keys(self, prior) == raw_theta_keys_from(self, prior, dict_order(self))

fixed_theta_dict(prior, key) ==
    IF prior[key].kind = "dict" THEN 0 ELSE prior[key].val

\* np.argsort followed by the three re-orderings: keys sorted by their
\* index (insertion of each key behind the keys of smaller or equal index)
RECURSIVE sort_by_idx(_, _)
sort_by_idx(keys, full) ==
    IF keys = <<>> THEN <<>>
    ELSE LET rest == sort_by_idx(Tail(keys), full)
             k == Head(keys)
             before == SelectSeq(rest, LAMBDA x : index(full, x) < index(full, k))
             after == SelectSeq(rest, LAMBDA x : index(full, x) >= index(full, k))
         IN  before \o <<k>> \o after

\* one pass of "for i, idx in enumerate(self.theta_idxs)" from position i on:
\* the numpy array is updated in place, so a later position sees the bumped
\* values of the earlier ones
RECURSIVE decollide_pass(_, _)
decollide_pass(idxs, i) ==
    IF i > Len(idxs) THEN idxs
    ELSE IF idxs[i] \in {idxs[k] : k \in 1..(i - 1)}
         THEN decollide_pass([idxs EXCEPT ![i] = @ + 1], i + 1)
         ELSE decollide_pass(idxs, i + 1)

\* np.sum(self.theta_idxs[:-1] == self.theta_idxs[1:]) > 0
adjacent_equal(idxs) == \E k \in 1..(Len(idxs) - 1) : idxs[k] = idxs[k + 1]

\* a single pass of the for loop instead of the while loop
decollide_OnePass(idxs) ==
    IF adjacent_equal(idxs) THEN decollide_pass(idxs, 1) ELSE idxs

\* the while loop of MCMCGlitchSearch.unpack_input_theta
RECURSIVE decollide(_)
decollide(idxs) ==
    IF adjacent_equal(idxs) THEN decollide(decollide_pass(idxs, 1)) ELSE idxs

\* the layout a successful unpack_input_theta leaves in self
unpack_layout(self, prior) ==
    LET full == full_theta_keys(self)
        keys == sort_by_idx(raw_theta_keys(self, prior), full)
        idxs == AsSeq([k \in 1..Len(keys) |-> index(full, keys[k])])
    IN  [theta_keys |-> keys,
         theta_idxs |-> IF self.cls = "MCMCGlitchSearch" THEN decollide(idxs) ELSE idxs,
         fixed_theta |-> AsSeq([k \in 1..Len(full) |-> fixed_theta_dict(prior, full[k])])]

NoError == [type |-> "none", what |-> "", keys |-> <<>>]

NoLayout == [theta_keys |-> <<>>, theta_idxs |-> <<>>, fixed_theta |-> <<>>]

\* every outcome of unpack_input_theta: an error raised, or the layout
unpack_input_theta(self, prior) ==
    LET loop == unpack_loop_errors(self, prior)
        left == full_theta_keys_copy(self, prior)
    IN  IF loop # {} THEN {[err |-> e, layout |-> NoLayout] : e \in loop}
        ELSE IF Len(left) > 0
             THEN {[err |-> [type |-> "ValueError", what |-> "missing keys",
                             keys |-> left],
                    layout |-> NoLayout]}
             ELSE {[err |-> NoError, layout |-> unpack_layout(self, prior)]}

(***************************************************************************)
(* MCMCSearch.logl and MCMCGlitchSearch.logl: the proposal is written into *)
(* self.fixed_theta in place, slot by slot, and the list is then passed as *)
(* the positional arguments of the evaluator.                              *)
(***************************************************************************)
\* the proposal written to the slots 0, 1, 2, .. instead of theta_idxs
RECURSIVE logl_fixed_theta_ByPosition(_, _, _, _)
logl_fixed_theta_ByPosition(ft, idxs, theta, j) ==
    IF j > Len(idxs) \/ j > Len(ft) THEN ft
    ELSE logl_fixed_theta_ByPosition([ft EXCEPT ![j] = theta[j]], idxs, theta, j + 1)

\* inititate_search_object: self.search = ComputeFstat(tref=.., ..,
\* transient=False), the flags of the evaluator; binary is not passed on
\* and keeps the default of ComputeFstat.__init__, False, whatever
\* self.binary is
inititate_search_object(self) ==
    [binary |-> FALSE, transient |-> FALSE]

\* a field of PulsarDopplerParams that the call has assigned, or has not
Assigned(v) == [set |-> TRUE, val |-> v]

NotAssigned == [set |-> FALSE, val |-> 0]

\* run_computefstatistic_single_point(*args): what the call assigns to
\* self.PulsarDopplerParams before lalpulsar.ComputeFstat; args is (tstart,
\* tend, F0, F1, F2, Alpha, Delta[, asini, period, ecc, tp, argp])
PulsarDopplerParams_of(search, args) ==
    [fkdot |-> <<args[3], args[4], args[5], 0, 0, 0, 0>>,
     Alpha |-> args[6],
     Delta |-> args[7],
     orbit |-> AsSeq([k \in 1..Len(binary_keys) |->
                         IF search.binary /\ 7 + k <= Len(args)
                         THEN Assigned(args[7 + k])
                         ELSE NotAssigned])]

\* the proposal written one slot after the slot of theta_idxs
RECURSIVE logl_fixed_theta_NextSlot(_, _, _, _)
logl_fixed_theta_NextSlot(ft, idxs, theta, j) ==
    IF j > Len(idxs) THEN ft
    ELSE logl_fixed_theta_NextSlot(
             [ft EXCEPT ![IF idxs[j] + 2 <= Len(ft) THEN idxs[j] + 2 ELSE 1] = theta[j]],
             idxs, theta, j + 1)

\* "for j, theta_i in enumerate(self.theta_idxs): self.fixed_theta[theta_i] =
\* theta[j]" from position j on
RECURSIVE logl_fixed_theta(_, _, _, _)
logl_fixed_theta(ft, idxs, theta, j) ==
    IF j > Len(idxs) THEN ft
    ELSE logl_fixed_theta([ft EXCEPT ![idxs[j] + 1] = theta[j]], idxs, theta, j + 1)

(***************************************************************************)
(* SpecTheta: Init draws the class, nglitch, binary and a prior            *)
(* dictionary; the prior is the canonical one for the class with any set   *)
(* of its keys free, and with at most one key left out, one key added and  *)
(* one value of an unrecognised type.                                      *)
(***************************************************************************)
MaxThetaNglitch == 3

MaxLoglCalls == 2

AllKeys ==
    <<"tstart", "tend", "F0", "F1", "F2", "Alpha", "Delta",
      "asini", "period", "ecc", "tp", "argp",
      "delta_F0", "delta_F1", "tglitch", "foo">>

\* the fixed value the test priors give a key: different for every key
FixedVals == AsTable([key \in SeqSet(AllKeys) |-> 100 + index(AllKeys, key)])

FixedVal(key) == FixedVals[key]

NumberOf(key) == [kind |-> "number", val |-> FixedVal(key)]

UnifOf(lower, upper) ==
    [kind |-> "dict", type |-> "unif", lower |-> lower, upper |-> upper]

OtherType == [kind |-> "other"]

\* the keys a caller supplies for a class: the canonical keys, less tstart and
\* tend, which MCMCSearch.__init__ adds itself
UserKeys(cls, binary) ==
    {"F0", "F1", "F2", "Alpha", "Delta"}
        \cup (IF cls = "MCMCSearch" /\ binary THEN SeqSet(binary_keys) ELSE {})
        \cup (IF cls = "MCMCGlitchSearch" THEN SeqSet(glitch_keys) ELSE {})

FreeChoices(cls) ==
    IF cls = "MCMCSearch"
    THEN SUBSET {"F0", "F1", "Alpha", "asini", "argp"}
    ELSE SUBSET UserKeys(cls, FALSE)

ExtraKeys(cls) ==
    IF cls = "MCMCSearch" THEN {"foo", "tglitch"} ELSE {"foo", "tstart"}

\* what is changed about the canonical prior
Deviations(cls, binary) ==
    LET K == UserKeys(cls, binary)
        none == [missing |-> {}, extra |-> {}, other |-> {}]
    IN  {none}
        \cup {[none EXCEPT !.missing = {k}] : k \in K}
        \cup {[none EXCEPT !.extra = {e}] : e \in ExtraKeys(cls)}
        \cup {[none EXCEPT !.other = {k}] : k \in K}
        \cup {[missing |-> {"F2"}, extra |-> {"foo"}, other |-> {}],
              [missing |-> {"F2"}, extra |-> {}, other |-> {"F0"}]}

PriorOf(cls, binary, free, dev) ==
    AsTable([k \in ((UserKeys(cls, binary) \ dev.missing) \cup dev.extra) |->
                IF k \in dev.other THEN OtherType
                ELSE IF k \in free THEN UnifOf(0, 50)
                ELSE NumberOf(k)])

ThetaClasses ==
    {[cls |-> "MCMCSearch", nglitch |-> 0, binary |-> b] : b \in BOOLEAN}
        \cup {[cls |-> "MCMCGlitchSearch", nglitch |-> n, binary |-> FALSE] :
                 n \in 0..MaxThetaNglitch}

ThetaInput(c, free, dev) ==
    [cls |-> c.cls, nglitch |-> c.nglitch, binary |-> c.binary,
     tstart |-> 0, tend |-> 10, dtglitchmin |-> 2,
     theta_prior |-> PriorOf(c.cls, c.binary, free \cap UserKeys(c.cls, c.binary), dev)]

NoTheta == <<>>

InitThetaWith(input) ==
    /\ tin = input
    /\ tpc = "new"
    /\ terr = NoError
    /\ theta_prior = tin.theta_prior
    /\ theta_keys = <<>>
    /\ theta_idxs = <<>>
    /\ fixed_theta = <<>>
    /\ ncalls = 0
    /\ logl_theta = NoTheta
    /\ logl_args = <<>>
    /\ logp_theta = NoTheta
    /\ logp_ret = "none"

FstatIdle ==
    /\ fin = [nglitch |-> 0]
    /\ fpc = "off"
    /\ fcalls = NoCalls
    /\ fresult = 0

InitTheta ==
    /\ \E c \in ThetaClasses :
          \E free \in FreeChoices(c.cls), dev \in Deviations(c.cls, c.binary) :
             InitThetaWith(ThetaInput(c, free, dev))
    /\ FstatIdle
    /\ RunIdle
    /\ OthersIdle

\* __init__ up to and including self.unpack_input_theta()
UnpackInputTheta ==
    /\ tpc = "new"
    /\ \E prior \in {init_theta_prior(tin)} :
          /\ theta_prior' = prior
          /\ \E o \in unpack_input_theta(tin, prior) :
                /\ terr' = o.err
                /\ theta_keys' = o.layout.theta_keys
                /\ theta_idxs' = o.layout.theta_idxs
                /\ fixed_theta' = o.layout.fixed_theta
                /\ tpc' = IF o.err = NoError THEN "ready" ELSE "error"
    /\ UNCHANGED <<xvars, tin, ncalls, logl_theta, logl_args, logp_theta, logp_ret,
                   fvars, rvars>>

LoglProposals(ndim) == {AsSeq([j \in 1..ndim |-> b + j]) : b \in {10, 20}}

\* logl(theta, search)
Logl ==
    /\ tpc = "ready"
    /\ ncalls < MaxLoglCalls
    /\ \E theta \in LoglProposals(Len(theta_keys)) :
          /\ fixed_theta' = logl_fixed_theta(fixed_theta, theta_idxs, theta, 1)
          /\ logl_args' = fixed_theta'
          /\ logl_theta' = theta
    /\ ncalls' = ncalls + 1
    /\ UNCHANGED <<xvars, tin, tpc, terr, theta_prior, theta_keys, theta_idxs,
                   logp_theta, logp_ret, fvars, rvars>>

NextTheta == UnpackInputTheta \/ Logl

SpecTheta == InitTheta /\ [][NextTheta]_vars

(***************************************************************************)
(* MCMCSearch.logp and MCMCGlitchSearch.logp.  theta_vals is the numpy     *)
(* array the sampler passes in; a prior value is abstracted to "finite" or *)
(* "neginf" (-np.inf), which is all that np.sum needs to tell whether the  *)
(* sum is -np.inf.                                                         *)
(***************************************************************************)
\* list + ndarray and ndarray + list: numpy converts the list and adds
\* element by element, a one-element operand being broadcast over the other
list_plus_array(l, a) ==
    IF Len(l) = 1 THEN AsSeq([k \in 1..Len(a) |-> l[1] + a[k]])
    ELSE IF Len(a) = 1 THEN AsSeq([k \in 1..Len(l) |-> l[k] + a[1]])
    ELSE IF Len(l) = Len(a) THEN AsSeq([k \in 1..Len(a) |-> l[k] + a[k]])
    ELSE "ValueError"

\* ts = [self.tstart] + theta_vals[-self.nglitch:] + [self.tend], the middle
\* operand being a numpy array
logp_ts(self, theta_vals) ==
    list_plus_array(
        list_plus_array(<<self.tstart>>, PySliceFrom(theta_vals, 0 - self.nglitch)),
        <<self.tend>>)

\* the keys of the coordinates that theta_vals[-self.nglitch:] (logp) and
\* p0[:, :, -self.nglitch:] (apply_corrections_to_p0) take: the last nglitch
\* free parameters, whatever they are
last_nglitch_keys(self, keys) == PySliceFrom(keys, 0 - self.nglitch)

RECURSIVE np_sort(_)
np_sort(a) ==
    IF a = <<>> THEN <<>>
    ELSE LET rest == np_sort(Tail(a))
         IN  SelectSeq(rest, LAMBDA x : x < Head(a)) \o <<Head(a)>>
                 \o SelectSeq(rest, LAMBDA x : x >= Head(a))

np_diff(a) == AsSeq([k \in 1..(Len(a) - 1) |-> a[k + 1] - a[k]])

\* the value of the function generic_lnprior(**desc) at x
generic_lnprior(desc, x) ==
    IF desc.type = "unif"
    THEN IF x < desc.upper /\ x > desc.lower THEN "finite" ELSE "neginf"
    ELSE IF desc.type = "halfnorm"
    THEN IF x < 0 THEN "neginf" ELSE "finite"
    ELSE IF desc.type = "norm" THEN "finite"
    ELSE "ValueError"

\* H = [...]; return np.sum(H)
logp_sum(theta_vals, prior, keys) ==
    LET n == Min(Len(theta_vals), Len(keys))
        H == AsSeq([k \in 1..n |-> generic_lnprior(prior[keys[k]], theta_vals[k])])
    IN  IF \E k \in 1..n : H[k] = "ValueError" THEN "ValueError"
        ELSE IF \E k \in 1..n : H[k] = "neginf" THEN "neginf"
        ELSE "finite"

logp(self, theta_vals, prior, keys) ==
    IF self.cls = "MCMCGlitchSearch" /\ self.nglitch > 1
    THEN LET ts == logp_ts(self, theta_vals)
         IN  IF ts # np_sort(ts) THEN "neginf"
             ELSE IF \E k \in 1..(Len(ts) - 1) : np_diff(ts)[k] < self.dtglitchmin
                  THEN "neginf"
                  ELSE logp_sum(theta_vals, prior, keys)
    ELSE logp_sum(theta_vals, prior, keys)

(***************************************************************************)
(* SpecLogp: a search with tstart = 1, tend = 7 and dtglitchmin = 2, some   *)
(* keys free, and one logp evaluation of a proposal with entries in        *)
(* 0..MaxLogpTime.                                                         *)
(***************************************************************************)
MaxLogpNglitch == 2

MaxLogpTime == 8

LogpTstart == 1

LogpTend == 7

LogpDtglitchmin == 2

NormOf(loc, scale) == [kind |-> "dict", type |-> "norm", loc |-> loc, scale |-> scale]

HalfnormOf(loc, scale) ==
    [kind |-> "dict", type |-> "halfnorm", loc |-> loc, scale |-> scale]

\* the priors a caller puts on the glitch epochs
TglitchPriors ==
    {UnifOf(LogpTstart, LogpTend),
     UnifOf(LogpTstart + LogpDtglitchmin, LogpTend - LogpDtglitchmin),
     NormOf(4, 1)}

LogpFreeChoices(cls) ==
    IF cls = "MCMCSearch" THEN {{"F0"}, {"F0", "F1"}}
    ELSE {{"tglitch"}, {"F0", "tglitch"}, {"F0"}, {"delta_F1"}, {"F0", "delta_F1"}}

LogpPriorOf(cls, free, tglitchPrior) ==
    AsTable([k \in UserKeys(cls, FALSE) |->
                IF k \notin free THEN NumberOf(k)
                ELSE IF k = "tglitch" THEN tglitchPrior
                ELSE IF k = "delta_F1" THEN HalfnormOf(0, 1)
                ELSE UnifOf(0, 3)])

LogpClasses ==
    {[cls |-> "MCMCSearch", nglitch |-> 0, binary |-> FALSE]}
        \cup {[cls |-> "MCMCGlitchSearch", nglitch |-> n, binary |-> FALSE] :
                 n \in 1..MaxLogpNglitch}

LogpInput(c, free, tglitchPrior) ==
    [cls |-> c.cls, nglitch |-> c.nglitch, binary |-> c.binary,
     tstart |-> LogpTstart, tend |-> LogpTend, dtglitchmin |-> LogpDtglitchmin,
     theta_prior |-> LogpPriorOf(c.cls, free, tglitchPrior)]

InitLogp ==
    /\ \E c \in LogpClasses :
          \E free \in LogpFreeChoices(c.cls), tglitchPrior \in TglitchPriors :
             InitThetaWith(LogpInput(c, free, tglitchPrior))
    /\ FstatIdle
    /\ RunIdle
    /\ OthersIdle

\* logp(theta_vals, theta_prior, theta_keys, search): it changes nothing of
\* the search object, so one evaluation per behaviour covers every call
Logp ==
    /\ tpc = "ready"
    /\ logp_theta = NoTheta
    /\ Len(theta_keys) > 0
    /\ \E theta_vals \in [1..Len(theta_keys) -> 0..MaxLogpTime] :
          /\ logp_theta' = theta_vals
          /\ logp_ret' = logp(tin, theta_vals, theta_prior, theta_keys)
    /\ UNCHANGED <<xvars, tin, tpc, terr, theta_prior, theta_keys, theta_idxs, fixed_theta,
                   ncalls, logl_theta, logl_args, fvars, rvars>>

NextLogp == UnpackInputTheta \/ Logp

SpecLogp == InitLogp /\ [][NextLogp]_vars

(***************************************************************************)
(* The staged MCMC driver.  The sampler (emcee.PTSampler) and the          *)
(* statistic evaluator are external: a sampler step stores, for every      *)
(* temperature and walker, a position and its log-probability and          *)
(* log-likelihood.  A position is identified by where it was produced      *)
(* (object, stage, step, temperature, walker); a log value is finite,      *)
(* NaN or -inf.                                                            *)
(***************************************************************************)
Fin(v) == [kind |-> "fin", val |-> v]

NaN == [kind |-> "nan", val |-> 0]

NegInf == [kind |-> "neginf", val |-> 0]

\* the values the log-likelihood of walker 0 of temperature 0 takes in a step
LnlikeChoices == {Fin(5), NaN, NegInf}

\* sampler.lnlikelihood[t, w, step]
chain_lnlike(step, t, w) == IF t = 0 /\ w = 0 THEN step.val ELSE Fin(w + 10 * t)

\* the values the log-prior of walker 0 of temperature 0 takes in a step: it
\* is the same (-1) at every position the sampler keeps when every free
\* parameter has a flat prior, and varies with the position otherwise
LnpriorChoices(prior, keys, val) ==
    IF val.kind = "fin"
          /\ \E k \in 1..Len(keys) : prior[keys[k]].type \in {"norm", "halfnorm"}
    THEN {0 - 1, 0 - 7}
    ELSE {0 - 1}

\* logp at the position of walker w of temperature t
chain_lnprior(step, t, w) == IF t = 0 /\ w = 0 THEN step.lnprior ELSE 0 - 1

\* sampler.lnprobability[t, w, step]: the log-likelihood plus the log-prior
chain_lnprob(step, t, w) ==
    LET l == chain_lnlike(step, t, w)
    IN  IF l.kind = "fin" THEN Fin(l.val + chain_lnprior(step, t, w)) ELSE l

\* sampler.chain[t, w, step, :]
chain_position(step, t, w) ==
    [obj |-> step.obj, stage |-> step.stage, k |-> step.k, temp |-> t, walker |-> w]

\* the index triples (step, temperature, walker) of X[temp, :, nburn:] in the
\* order of reshape(-1): walker by walker, each walker's steps in order
chain_slice(ch, temp, nwalkers, nburn) ==
    LET n == Max(Len(ch) - nburn, 0)
    IN  AsSeq([i \in 1..(nwalkers * n) |->
                  [step |-> ch[nburn + ((i - 1) % n) + 1], temp |-> temp,
                   walker |-> (i - 1) \div n]])

\* sampler.chain[0, :, nburn:, :].reshape((-1, self.ndim))
slice_of_chain(sl) ==
    AsSeq([i \in 1..Len(sl) |-> chain_position(sl[i].step, sl[i].temp, sl[i].walker)])

\* sampler.lnprobability[0, :, nburn:].reshape((-1))
slice_of_lnprobability(sl) ==
    AsSeq([i \in 1..Len(sl) |-> chain_lnprob(sl[i].step, sl[i].temp, sl[i].walker)])

\* sampler.lnlikelihood[0, :, nburn:].reshape((-1))
slice_of_lnlikelihood(sl) ==
    AsSeq([i \in 1..Len(sl) |-> chain_lnlike(sl[i].step, sl[i].temp, sl[i].walker)])

\* sampler.reset() leaves the chain as it is
sampler_reset_Keep(ch) ==
    ch

\* sampler.reset()
sampler_reset(ch) ==
    <<>>

\* self.nsteps[:-2]
init_stages(nsteps) == PySlice(nsteps, 0, 0 - 2)

\* nburn = self.nsteps[-2]
nburn_of(nsteps) == nsteps[Len(nsteps) - 1]

\* nprod = self.nsteps[-1]
nprod_of(nsteps) == nsteps[Len(nsteps)]

\* the terminal stage runs the production steps only
terminal_steps_ProdOnly(nsteps) ==
    nprod_of(nsteps)

\* sampler.run_mcmc(p0, nburn+nprod)
terminal_steps(nsteps) ==
    nburn_of(nsteps) + nprod_of(nsteps)

\* the steps run_mcmc is asked for in stage j
stage_steps(nsteps, j) ==
    IF j < Len(init_stages(nsteps)) THEN init_stages(nsteps)[j + 1]
    ELSE terminal_steps(nsteps)

\* a < b for two log values that are not NaN
LogLess(a, b) ==
    IF a.kind = "neginf" THEN b.kind # "neginf"
    ELSE b.kind = "fin" /\ a.val < b.val

\* position 0 whatever the values are
nanargmax_First(lnp) ==
    IF {w \in 1..Len(lnp) : lnp[w].kind # "nan"} = {}
    THEN [raised |-> "ValueError", idx |-> 0]
    ELSE [raised |-> "", idx |-> 0]

\* np.nanargmax(lnp): the first position of the largest value that is not
\* NaN; ValueError when every value is NaN
nanargmax(lnp) ==
    LET cand == {w \in 1..Len(lnp) : lnp[w].kind # "nan"}
    IN  IF cand = {} THEN [raised |-> "ValueError", idx |-> 0]
        ELSE [raised |-> "",
              idx |-> (CHOOSE w \in cand :
                          /\ \A u \in cand : ~LogLess(lnp[w], lnp[u])
                          /\ \A u \in cand : u < w => LogLess(lnp[u], lnp[w])) - 1]

\* generate_scattered_p0(p): for every temperature and walker the point
\* p + self.scatter_val * p * np.random.randn(self.ndim)
generate_scattered_p0(self, p) ==
    AsSeq([j \in 1..self.ntemps |->
              AsSeq([i \in 1..self.nwalkers |->
                        [about |-> p, scatter_val |-> self.scatter_val]])])

\* get_new_p0: the walkers scattered about the position, at the last step,
\* of the walker of temperature 0 with the largest log-probability
get_new_p0(self, ch) ==
    LET last == ch[Len(ch)]
        lnp == AsSeq([w \in 1..self.nwalkers |-> chain_lnprob(last, 0, w - 1)])
        best == nanargmax(lnp)
    IN  IF best.raised # "" THEN [src |-> best.raised]
        ELSE [src |-> "scattered", about |-> chain_position(last, 0, best.idx),
              scatter_val |-> self.scatter_val,
              p0 |-> generate_scattered_p0(self, chain_position(last, 0, best.idx)),
              sorted_last |-> 0]

\* generate_initial_p0
generate_initial_p0(self) ==
    IF self.theta_initial = "dict" THEN [src |-> "theta_initial", sorted_last |-> 0]
    ELSE [src |-> "theta_prior", sorted_last |-> 0]

\* generate_rv(**desc): a draw, or ValueError for a type it does not know
generate_rv(desc) ==
    IF desc.type \in {"unif", "norm", "halfnorm", "lognorm"} THEN "value"
    ELSE "ValueError"

\* generate_initial_p0 raises: with theta_initial None every free key's
\* prior is drawn from (a theta_initial dict holds descriptors of its own)
generate_initial_p0_raises(self, prior, keys) ==
    /\ self.theta_initial = "None"
    /\ \E k \in 1..Len(keys) : generate_rv(prior[keys[k]]) = "ValueError"

\* check_initial_points(p0): logp of every initial walker of temperature 0.
\* generic_lnprior raises for a type it does not know, whatever the point;
\* MCMCGlitchSearch.logp with nglitch > 1 returns before the priors for a
\* walker whose epochs fail its tests, so there the error depends on the draw
check_initial_points(self, prior, keys) ==
    IF \A k \in 1..Len(keys) : generic_lnprior(prior[keys[k]], 1) # "ValueError"
    THEN {""}
    ELSE IF self.cls = "MCMCGlitchSearch" /\ self.nglitch > 1
    THEN {"", "ValueError"}
    ELSE {"ValueError"}

\* run() from generate_initial_p0 to check_initial_points: the function that
\* raised, or ""
initial_points_outcomes(self, prior, keys) ==
    IF generate_initial_p0_raises(self, prior, keys) THEN {"generate_rv"}
    ELSE {IF c = "ValueError" THEN "generic_lnprior" ELSE "" :
             c \in check_initial_points(self, prior, keys)}

\* apply_corrections_to_p0: MCMCSearch returns p0 as it is; MCMCGlitchSearch
\* with more than one glitch sorts the last nglitch coordinates of every
\* walker
apply_corrections_to_p0(self, p) ==
    IF self.cls = "MCMCGlitchSearch" /\ self.nglitch > 1
    THEN [p EXCEPT !.sorted_last = self.nglitch]
    ELSE p

\* get_save_data_dictionary
get_save_data_dictionary(self, keys, prior) ==
    [nsteps |-> self.nsteps, nwalkers |-> self.nwalkers, ntemps |-> self.ntemps,
     theta_keys |-> keys, theta_prior |-> prior, scatter_val |-> self.scatter_val]

\* the staleness test left out
pickle_outdates_sfts_Never(mtime, oldest_sft) ==
    FALSE

\* os.path.getmtime(self.pickle_path) < oldest_sft
pickle_outdates_sfts(mtime, oldest_sft) ==
    mtime < oldest_sft

\* the keys of new_d whose values differ from old_d's
mod_keys(old_d, new_d) == {key \in DOMAIN new_d : new_d[key] # old_d[key]}

check_old_data_is_okay_to_use(file, oldest_sft, new_d) ==
    IF ~file.exists THEN FALSE
    ELSE IF pickle_outdates_sfts(file.mtime, oldest_sft) THEN FALSE
    ELSE mod_keys(file.d, new_d) = {}

\* the file pickle.dump writes; saved_by and written_by are history: the
\* arguments of the search that wrote it, and which object it was
pickle_dump(d, sampler, smp, lnp, lnl, mtime, self, obj) ==
    [exists |-> TRUE, mtime |-> mtime, d |-> d, sampler |-> sampler,
     samples |-> smp, lnprobs |-> lnp, lnlikes |-> lnl,
     saved_by |-> self, written_by |-> obj]

\* the file as os.rename leaves it at the ".old" path.  Nothing reads the
\* backup, so the model keeps of it that it exists, when it was written and
\* by which search object, and not its content
backup_of(file) ==
    [exists |-> TRUE, mtime |-> file.mtime, written_by |-> file.written_by]

\* the existing checkpoint is overwritten, the backup left as it was
rename_to_old_Discard(file, old) ==
    old

\* save_data: "if os.path.isfile(self.pickle_path): os.rename(self.pickle_path,
\* self.pickle_path+'.old')": the file at the ".old" path afterwards
rename_to_old(file, old) ==
    IF file.exists THEN backup_of(file) ELSE old

\* one entry of the history of run()
Event(ev, j, k, val) == [ev |-> ev, stage |-> j, k |-> k, val |-> val]

\* the entry of a sampler step: what walker 0 of temperature 0 was given
StepEvent(j, k, val, lnprior) ==
    [ev |-> "step", stage |-> j, k |-> k, val |-> val, lnprior |-> lnprior]

(***************************************************************************)
(* The searches a script constructs: a base MCMCSearch and a base          *)
(* MCMCGlitchSearch, and each with one constructor argument changed (and   *)
(* one single-walker search with an initialisation stage, one search with  *)
(* two free parameters, a normal prior and an initialisation stage).       *)
(* MCMCSearch has no nglitch and no dtglitchmin, MCMCGlitchSearch no       *)
(* binary argument; the record gives them 0 and FALSE.                     *)
(***************************************************************************)
MaxConstructions == 2

MaxSftWrites == 1

NoDeviation == [missing |-> {}, extra |-> {}, other |-> {}]

LognormOf(loc, scale) ==
    [kind |-> "dict", type |-> "lognorm", loc |-> loc, scale |-> scale]

\* a descriptor of a type no function of the class knows
CauchyOf(x0, gamma) ==
    [kind |-> "dict", type |-> "cauchy", x0 |-> x0, gamma |-> gamma]

BaseMCMCSearch ==
    [cls |-> "MCMCSearch", binary |-> FALSE, nglitch |-> 0, dtglitchmin |-> 0,
     theta_prior |-> PriorOf("MCMCSearch", FALSE, {"F0"}, NoDeviation),
     tref |-> 1, tstart |-> 0, tend |-> 10,
     nsteps |-> <<0, 1>>, nwalkers |-> 2, ntemps |-> 1,
     theta_initial |-> "None", scatter_val |-> 1, betas |-> "None"]

BaseMCMCGlitchSearch ==
    [BaseMCMCSearch EXCEPT
        !.cls = "MCMCGlitchSearch", !.nglitch = 1, !.dtglitchmin = 2,
        !.theta_prior = PriorOf("MCMCGlitchSearch", FALSE, {"F0"}, NoDeviation)]

SearchConfigs ==
    {BaseMCMCSearch,
     [BaseMCMCSearch EXCEPT !.tref = 2],
     [BaseMCMCSearch EXCEPT !.nsteps = <<1, 1, 1>>],
     [BaseMCMCSearch EXCEPT !.nsteps = <<2, 1, 0, 1>>],
     [BaseMCMCSearch EXCEPT !.nwalkers = 1, !.nsteps = <<1, 0, 1>>],
     [BaseMCMCSearch EXCEPT !.ntemps = 2],
     [BaseMCMCSearch EXCEPT !.theta_initial = "dict"],
     [BaseMCMCSearch EXCEPT
         !.nsteps = <<1, 0, 1>>,
         !.theta_prior =
             [PriorOf("MCMCSearch", FALSE, {"F0", "F1"}, NoDeviation)
                 EXCEPT !["F0"] = NormOf(25, 5)]],
     [BaseMCMCSearch EXCEPT !.binary = TRUE],
     [BaseMCMCSearch EXCEPT
         !.theta_prior = [PriorOf("MCMCSearch", FALSE, {"F0"}, NoDeviation)
                             EXCEPT !["F0"] = LognormOf(3, 1)]],
     [BaseMCMCSearch EXCEPT
         !.theta_prior = [PriorOf("MCMCSearch", FALSE, {"F0"}, NoDeviation)
                             EXCEPT !["F0"] = CauchyOf(3, 1)]],
     BaseMCMCGlitchSearch,
     [BaseMCMCGlitchSearch EXCEPT !.nglitch = 2],
     [BaseMCMCGlitchSearch EXCEPT !.dtglitchmin = 3]}

Init ==
    /\ FstatIdle
    /\ ThetaIdle
    /\ RunIdle
    /\ OthersIdle

\* __init__ of MCMCSearch and of MCMCGlitchSearch, with args.clean as the
\* script was started; a script constructs its next search when the run of
\* the previous one has returned
Construct ==
    /\ pc \in {"none", "done", "failed"}
    /\ nobj < MaxConstructions
    /\ nobj' = nobj + 1
    /\ \E self \in SearchConfigs, clean \in BOOLEAN :
          \E prior \in {init_theta_prior(self)} :
             \E o \in unpack_input_theta(self, prior) :
                /\ tin' = self
                /\ theta_prior' = prior
                /\ terr' = o.err
                /\ theta_keys' = o.layout.theta_keys
                /\ theta_idxs' = o.layout.theta_idxs
                /\ fixed_theta' = o.layout.fixed_theta
                /\ IF o.err # NoError
                   THEN /\ tpc' = "error"
                        /\ pc' = "failed"
                        /\ old_data_is_okay_to_use' = FALSE
                        /\ UNCHANGED <<pickle, pickle_old>>
                   ELSE /\ tpc' = "ready"
                        /\ pc' = "constructed"
                        /\ IF clean /\ pickle.exists
                           THEN pickle' = NoFile /\ pickle_old' = backup_of(pickle)
                           ELSE UNCHANGED <<pickle, pickle_old>>
                        /\ old_data_is_okay_to_use' =
                              check_old_data_is_okay_to_use(
                                  pickle', sft_mtime,
                                  get_save_data_dictionary(
                                      self, o.layout.theta_keys, prior))
    /\ ctor_file' = pickle'
    /\ ctor_sft' = sft_mtime
    /\ stage' = 0
    /\ istep' = 0
    /\ chain' = <<>>
    /\ p0' = NoP0
    /\ samples' = <<>>
    /\ lnprobs' = <<>>
    /\ lnlikes' = <<>>
    /\ trace' = <<>>
    /\ nevals' = 0
    /\ ncalls' = 0
    /\ logl_theta' = NoTheta
    /\ logl_args' = <<>>
    /\ logp_theta' = NoTheta
    /\ logp_ret' = "none"
    /\ UNCHANGED <<xvars, clock, sft_mtime, nsft, fvars>>

\* the data is regenerated between two runs of a script, before the next
\* search is constructed: every matching SFT file is written anew
RewriteSFTs ==
    /\ pc = "done"
    /\ nobj < MaxConstructions
    /\ nsft < MaxSftWrites
    /\ nsft' = nsft + 1
    /\ clock' = clock + 1
    /\ sft_mtime' = clock + 1
    /\ UNCHANGED <<xvars, fvars, tvars, nobj, pc, old_data_is_okay_to_use, pickle,
                   pickle_old, stage, istep, chain, p0, samples, lnprobs, lnlikes,
                   trace, nevals, ctor_file, ctor_sft>>

\* run() when self.old_data_is_okay_to_use is True
RunLoad ==
    /\ pc = "constructed"
    /\ old_data_is_okay_to_use = TRUE
    /\ pickle.exists
    /\ chain' = pickle.sampler
    /\ samples' = pickle.samples
    /\ lnprobs' = pickle.lnprobs
    /\ lnlikes' = pickle.lnlikes
    /\ trace' = <<Event("load", 0, 0, Fin(0))>>
    /\ pc' = "done"
    /\ UNCHANGED <<xvars, fvars, tvars, nobj, old_data_is_okay_to_use, pickle, pickle_old,
                   clock, sft_mtime, nsft, stage, istep, p0, nevals, ctor_file,
                   ctor_sft>>

\* run() up to the first run_mcmc: the evaluator and the sampler are set up
\* and the initial walkers drawn
RunStart ==
    /\ pc = "constructed"
    /\ old_data_is_okay_to_use # TRUE
    /\ stage' = 0
    /\ istep' = 0
    /\ chain' = <<>>
    /\ \E by \in initial_points_outcomes(tin, theta_prior, theta_keys) :
          IF by # ""
          THEN /\ pc' = "failed"
               /\ p0' = [src |-> "ValueError", raised_by |-> by, sorted_last |-> 0]
          ELSE /\ pc' = "sampling"
               /\ p0' = apply_corrections_to_p0(tin, generate_initial_p0(tin))
    /\ UNCHANGED <<xvars, fvars, tvars, nobj, old_data_is_okay_to_use, pickle, pickle_old,
                   clock, sft_mtime, nsft, samples, lnprobs, lnlikes, trace, nevals,
                   ctor_file, ctor_sft>>

\* the proposal of the last likelihood evaluation of a step
step_proposal(ndim, j, k) == AsSeq([d \in 1..ndim |-> 100 * (j + 1) + 10 * k + d])

\* one step of sampler.run_mcmc: logl is evaluated once for every walker of
\* every temperature, and the step is stored
SamplerStep ==
    /\ pc = "sampling"
    /\ istep < stage_steps(tin.nsteps, stage)
    /\ istep' = istep + 1
    /\ \E val \in LnlikeChoices :
          \E lnprior \in LnpriorChoices(theta_prior, theta_keys, val) :
             /\ chain' = Append(chain, [obj |-> nobj, stage |-> stage, k |-> istep,
                                        val |-> val, lnprior |-> lnprior])
             /\ trace' = Append(trace, StepEvent(stage, istep, val, lnprior))
    /\ nevals' = nevals + tin.ntemps * tin.nwalkers
    /\ logl_theta' = step_proposal(Len(theta_keys), stage, istep)
    /\ fixed_theta' = logl_fixed_theta(fixed_theta, theta_idxs, logl_theta', 1)
    /\ logl_args' = fixed_theta'
    /\ UNCHANGED <<xvars, fvars, tin, tpc, terr, theta_prior, theta_keys, theta_idxs,
                   ncalls, logp_theta, logp_ret, nobj, pc, old_data_is_okay_to_use,
                   pickle, pickle_old, clock, sft_mtime, nsft, stage, p0, samples,
                   lnprobs, lnlikes, ctor_file, ctor_sft>>

\* the end of an initialisation stage: get_new_p0 and sampler.reset()
StageEnd ==
    /\ pc = "sampling"
    /\ stage < Len(init_stages(tin.nsteps))
    /\ istep = stage_steps(tin.nsteps, stage)
    /\ \E new \in {get_new_p0(tin, chain)} :
          IF new.src = "ValueError"
          THEN /\ pc' = "failed"
               /\ UNCHANGED <<stage, istep, chain, p0, trace>>
          ELSE /\ p0' = apply_corrections_to_p0(tin, new)
               /\ chain' = sampler_reset(chain)
               /\ stage' = stage + 1
               /\ istep' = 0
               /\ trace' = trace \o <<Event("new_p0", stage, 0, Fin(0)),
                                      Event("reset", stage, 0, Fin(0))>>
               /\ pc' = pc
    /\ UNCHANGED <<xvars, fvars, tvars, nobj, old_data_is_okay_to_use, pickle, pickle_old,
                   clock, sft_mtime, nsft, samples, lnprobs, lnlikes, nevals,
                   ctor_file, ctor_sft>>

\* the end of the terminal stage: the production samples are cut out of the
\* chain and save_data writes the pickle
Finish ==
    /\ pc = "sampling"
    /\ stage = Len(init_stages(tin.nsteps))
    /\ istep = stage_steps(tin.nsteps, stage)
    /\ \E sl \in {chain_slice(chain, 0, tin.nwalkers, nburn_of(tin.nsteps))} :
          /\ samples' = slice_of_chain(sl)
          /\ lnprobs' = slice_of_lnprobability(sl)
          /\ lnlikes' = slice_of_lnlikelihood(sl)
    /\ pickle_old' = rename_to_old(pickle, pickle_old)
    /\ clock' = clock + 1
    /\ pickle' = pickle_dump(get_save_data_dictionary(tin, theta_keys, theta_prior),
                             chain, samples', lnprobs', lnlikes', clock + 1, tin,
                             nobj)
    /\ trace' = Append(trace, Event("save", stage, 0, Fin(0)))
    /\ pc' = "done"
    /\ UNCHANGED <<xvars, fvars, tvars, nobj, old_data_is_okay_to_use, sft_mtime, nsft,
                   stage, istep, chain, p0, nevals, ctor_file, ctor_sft>>

Next ==
    \/ Construct
    \/ RewriteSFTs
    \/ RunLoad
    \/ RunStart
    \/ SamplerStep
    \/ StageEnd
    \/ Finish

Spec == Init /\ [][Next]_vars

(***************************************************************************)
(* SpecShift: Init draws a vector of 1..MaxShiftLen coefficients and a     *)
(* time difference dT; the vector is shifted by dT and the result shifted  *)
(* by -dT.                                                                 *)
(***************************************************************************)
MaxShiftLen == 7

MaxShiftDT == 2

ShiftVals == {0, 3}

InitShift ==
    /\ \E n \in 1..MaxShiftLen :
          \E theta \in [1..n -> ShiftVals], dT \in (0 - MaxShiftDT)..MaxShiftDT :
             sh_in = [theta |-> theta, dT |-> dT]
    /\ sh_pc = "ready"
    /\ sh_out = <<>>
    /\ SummaryIdle
    /\ GridIdle
    /\ SaveIdle
    /\ FstatIdle
    /\ ThetaIdle
    /\ RunIdle

\* shift_coefficients(theta, dT)
ShiftThere ==
    /\ sh_pc = "ready"
    /\ sh_out' = shift_coefficients(NumVec(sh_in.theta), sh_in.dT)
    /\ sh_pc' = "shifted"
    /\ UNCHANGED <<sh_in, svars, gvars, cvars, fvars, tvars, rvars>>

\* shift_coefficients(., -dT) of what the first call returned
ShiftBack ==
    /\ sh_pc = "shifted"
    /\ sh_out' = shift_coefficients(sh_out, 0 - sh_in.dT)
    /\ sh_pc' = "back"
    /\ UNCHANGED <<sh_in, svars, gvars, cvars, fvars, tvars, rvars>>

NextShift == ShiftThere \/ ShiftBack

SpecShift == InitShift /\ [][NextShift]_vars

(***************************************************************************)
(* The summaries of a sample set: MCMCSearch.get_max_twoF and              *)
(* get_median_stds.  self.samples is a list of rows, one value per free    *)
(* dimension; self.lnlikes holds a log value per row, which here can also  *)
(* be +inf.  A key of the returned dictionary is the triple of the strings *)
(* it is concatenated from: the key of theta_keys, the suffix '_1' or '',  *)
(* and '_std' or ''.                                                       *)
(***************************************************************************)
PosInf == [kind |-> "posinf", val |-> 0]

\* np.isfinite
np_isfinite(x) == x.kind = "fin"

\* samples[:, i] (i: Python position)
samples_column(smp, i) == AsSeq([r \in 1..Len(smp) |-> smp[r][i + 1]])

\* a[mask] for a boolean mask no longer than a: the elements at the True
\* positions of the mask, from position p on
RECURSIVE boolean_index_from(_, _, _)
boolean_index_from(a, mask, p) ==
    IF p > Len(mask) \/ p > Len(a) THEN <<>>
    ELSE (IF mask[p] THEN <<a[p]>> ELSE <<>>) \o boolean_index_from(a, mask, p + 1)

boolean_index(a, mask) == boolean_index_from(a, mask, 1)

RECURSIVE RSum(_)
RSum(s) == IF s = <<>> THEN R0 ELSE RAdd(Head(s), RSum(Tail(s)))

\* np.std(s): the square root of the mean squared deviation from the mean
\* (kept as the number under the root), NaN for an empty s
np_std(s) ==
    IF s = <<>> THEN [kind |-> "nan"]
    ELSE LET n == Len(s)
             mean == RMul(RSum(AsSeq([k \in 1..n |-> Rat(s[k], 1)])), Rat(1, n))
             dev(k) == RAdd(Rat(s[k], 1), RMul(Rat(0 - 1, 1), mean))
         IN  [kind |-> "sqrt",
              of |-> RMul(RSum(AsSeq([k \in 1..n |-> RMul(dev(k), dev(k))])),
                          Rat(1, n))]

\* s in ascending order
RECURSIVE sorted(_)
sorted(s) ==
    IF s = <<>> THEN <<>>
    ELSE LET rest == sorted(Tail(s))
         IN  SelectSeq(rest, LAMBDA x : x < Head(s)) \o <<Head(s)>>
                 \o SelectSeq(rest, LAMBDA x : x >= Head(s))

\* np.median(s): the middle of the sorted values, the mean of the two middle
\* ones for an even number, NaN for an empty s
np_median(s) ==
    IF s = <<>> THEN [kind |-> "nan"]
    ELSE LET t == sorted(s)
             n == Len(s)
         IN  [kind |-> "num",
              val |-> IF n % 2 = 1 THEN Rat(t[(n + 1) \div 2], 1)
                      ELSE Rat(t[n \div 2] + t[n \div 2 + 1], 2)]

\* threshold=0.05
default_threshold == <<1, 20>>

\* abs((maxtwoF - x) / maxtwoF) < threshold for a finite x: False when
\* maxtwoF is NaN, infinite or 0 (the quotient is then NaN or infinite)
within_threshold(maxtwoF, x, threshold) ==
    /\ maxtwoF.kind = "fin"
    /\ maxtwoF.val # 0
    /\ threshold[2] * Abs(maxtwoF.val - x.val) < threshold[1] * Abs(maxtwoF.val)

\* the key under which get_max_twoF stores dimension k: "while k in d: k =
\* base_key + '_{}'.format(ng)" with ng = 1 throughout, which does not end
\* when base_key and base_key_1 are both in d
max_twoF_key(d, base_key) ==
    IF <<base_key, "", "">> \notin DOMAIN d THEN [hangs |-> FALSE, suffix |-> ""]
    ELSE IF <<base_key, "_1", "">> \notin DOMAIN d THEN [hangs |-> FALSE, suffix |-> "_1"]
    ELSE [hangs |-> TRUE, suffix |-> "_1"]

\* the loop over enumerate(self.theta_keys) from position i on.  When the
\* mask close_idxs is shorter than the column, numpy releases before 1.13
\* warn and take the elements at the True positions (legacy), later ones
\* raise IndexError
RECURSIVE max_twoF_loop(_, _, _, _, _, _, _)
max_twoF_loop(keys, smp, jmax, close_idxs, legacy, i, d) ==
    IF i >= Len(keys) THEN [raised |-> "", d |-> d]
    ELSE LET k == max_twoF_key(d, keys[i + 1])
             col == samples_column(smp, i)
         IN  IF k.hangs THEN [raised |-> "never returns", d |-> d]
             ELSE IF Len(close_idxs) # Len(col) /\ ~legacy
                  THEN [raised |-> "IndexError",
                        d |-> (<<keys[i + 1], k.suffix, "">> :> [kind |-> "num",
                                                                 val |-> smp[jmax + 1][i + 1]])
                                  @@ d]
                  ELSE max_twoF_loop(
                           keys, smp, jmax, close_idxs, legacy, i + 1,
                           (<<keys[i + 1], k.suffix, "_std">> :>
                                np_std(boolean_index(col, close_idxs)))
                           @@ (<<keys[i + 1], k.suffix, "">> :>
                                   [kind |-> "num", val |-> smp[jmax + 1][i + 1]])
                           @@ d)

\* get_max_twoF(threshold): what it returns or raises
get_max_twoF(self, threshold, legacy) ==
    LET idxs == AsSeq([r \in 1..Len(self.lnlikes) |-> np_isfinite(self.lnlikes[r])])
        finite == boolean_index(self.lnlikes, idxs)
        best == nanargmax(finite)
    IN  IF best.raised # ""
        THEN [method |-> "get_max_twoF", raised |-> best.raised, d |-> <<>>,
              maxtwoF |-> NaN, jmax |-> 0]
        ELSE LET jmax == best.idx
                 maxtwoF == self.lnlikes[jmax + 1]
                 close_idxs ==
                     AsSeq([r \in 1..Len(finite) |->
                               within_threshold(maxtwoF, finite[r], threshold)])
                 loop == max_twoF_loop(self.theta_keys, self.samples, jmax,
                                       close_idxs, legacy, 0, <<>>)
             IN  [method |-> "get_max_twoF", raised |-> loop.raised, d |-> loop.d,
                  maxtwoF |-> maxtwoF, jmax |-> jmax]

\* the loop over zip(self.samples.T, self.theta_keys) from position i on
RECURSIVE median_stds_loop(_, _, _, _)
median_stds_loop(keys, smp, i, d) ==
    IF i >= Len(keys) THEN d
    ELSE LET s == samples_column(smp, i)
         IN  median_stds_loop(
                 keys, smp, i + 1,
                 (<<keys[i + 1], "", "_std">> :> np_std(s))
                 @@ (<<keys[i + 1], "", "">> :> np_median(s))
                 @@ d)

\* get_median_stds()
get_median_stds(self) ==
    [method |-> "get_median_stds", raised |-> "",
     d |-> median_stds_loop(self.theta_keys, self.samples, 0, <<>>),
     maxtwoF |-> NaN, jmax |-> 0]

(***************************************************************************)
(* SpecSummary: Init draws the free keys of a search (so theta_keys is     *)
(* what unpack_input_theta leaves) and a sample set of 0..MaxSamples rows. *)
(***************************************************************************)
MaxSamples == 3

MaxSummaryNglitch == 3

SummaryLnlikes == {Fin(100), Fin(98), Fin(50), NaN, NegInf, PosInf}

\* the searches whose sample sets are summarised
SummarySearches ==
    {[cls |-> "MCMCSearch", binary |-> FALSE, nglitch |-> 0, free |-> f] :
         f \in {{"F0"}, {"F0", "F1"}}}
    \cup {[cls |-> "MCMCGlitchSearch", binary |-> FALSE, nglitch |-> n, free |-> f] :
             n \in 1..MaxSummaryNglitch, f \in {{"tglitch"}, {"F0", "tglitch"}}}

summary_theta_keys(c) ==
    unpack_layout(c, init_theta_prior(
                         [cls |-> c.cls, tstart |-> 0, tend |-> 10,
                          theta_prior |-> PriorOf(c.cls, c.binary, c.free,
                                                  NoDeviation)])).theta_keys

\* row r of the samples: the values grow with the row, linearly or not
summary_samples(n, ndim, square) ==
    AsSeq([r \in 1..n |->
              AsSeq([i \in 1..ndim |-> (IF square THEN r * r ELSE r) + 10 * i])])

InitSummary ==
    /\ \E c \in SummarySearches, n \in 0..MaxSamples, square \in BOOLEAN :
          \E lnl \in [1..n -> SummaryLnlikes] :
             \E keys \in {summary_theta_keys(c)} :
                sm_in = [theta_keys |-> keys,
                         samples |-> summary_samples(n, Len(keys), square),
                         lnlikes |-> lnl]
    /\ sm_pc = "ready"
    /\ sm_out = [method |-> "none"]
    /\ ShiftIdle
    /\ GridIdle
    /\ SaveIdle
    /\ FstatIdle
    /\ ThetaIdle
    /\ RunIdle

GetMaxTwoF ==
    /\ sm_pc = "ready"
    /\ \E legacy \in BOOLEAN :
          sm_out' = get_max_twoF(sm_in, default_threshold, legacy)
    /\ sm_pc' = "done"
    /\ UNCHANGED <<sm_in, hvars, gvars, cvars, fvars, tvars, rvars>>

GetMedianStds ==
    /\ sm_pc = "ready"
    /\ sm_out' = get_median_stds(sm_in)
    /\ sm_pc' = "done"
    /\ UNCHANGED <<sm_in, hvars, gvars, cvars, fvars, tvars, rvars>>

NextSummary == GetMaxTwoF \/ GetMedianStds

SpecSummary == InitSummary /\ [][NextSummary]_vars

(***************************************************************************)
(* GridSearch and GridGlitchSearch.  A grid is given per parameter as a    *)
(* list of one value or as the triple [min, max, step].  The grid values   *)
(* of the model are counted in halves, so the triple (0, 1, 0.5) is        *)
(* <<0, 2, 1>>.                                                            *)
(***************************************************************************)
\* the length of np.arange(x[0], x[1]*(1+1e-15), x[2]) for a step > 0:
\* ceil((stop - start) / step), where the factor (1+1e-15) moves the stop
\* just above a positive x[1], leaves a zero x[1] where it is and moves a
\* negative x[1] just below it
arange_len(lo, hi, step) ==
    IF hi > 0
    THEN IF lo > hi THEN 0 ELSE (hi - lo) \div step + 1
    ELSE IF lo >= hi THEN 0 ELSE ((hi - lo) + step - 1) \div step

\* what np.arange does with a step of 0: the length is a division by zero,
\* which raises (ZeroDivisionError, or ValueError for an infinite length)
\* or, where the quotient is computed as a C double, gives an empty array
arange_step0 ==
    {[raised |-> "ZeroDivisionError", array |-> <<>>],
     [raised |-> "", array |-> <<>>]}

\* get_array_from_tuple(x): every outcome
get_array_from_tuple(x) ==
    IF Len(x) = 1 THEN {[raised |-> "", array |-> x]}
    ELSE IF x[3] = 0 THEN arange_step0
    ELSE {[raised |-> "",
           array |-> AsSeq([k \in 1..arange_len(x[1], x[2], x[3]) |->
                               x[1] + (k - 1) * x[3]])]}

\* itertools.product(*arrays): the last array varies fastest
RECURSIVE itertools_product(_)
itertools_product(arrays) ==
    IF arrays = <<>> THEN <<<<>>>>
    ELSE LET rest == itertools_product(Tail(arrays))
             first == Head(arrays)
             n == Len(rest)
         IN  AsSeq([i \in 1..(Len(first) * n) |->
                       <<first[((i - 1) \div n) + 1]>> \o rest[((i - 1) % n) + 1]])

\* the tuples get_input_data_array loops over, in its order
grid_tuples(self) ==
    IF self.cls = "GridSearch"
    THEN <<<<self.tstart>>, <<self.tend>>, self.F0s, self.F1s, self.F2s,
           self.Alphas, self.Deltas>>
    ELSE <<self.F0s, self.F1s, self.F2s, self.Alphas, self.Deltas,
           self.delta_F0s, self.delta_F1s, self.tglitchs>>

\* the name of every column of input_data
grid_columns(self) ==
    IF self.cls = "GridSearch"
    THEN <<"tstart", "tend", "F0", "F1", "F2", "Alpha", "Delta">>
    ELSE <<"F0", "F1", "F2", "Alpha", "Delta", "delta_F0", "delta_F1", "tglitch">>

\* the outcomes of the arrays from position k on
RECURSIVE grid_arrays_from(_, _)
grid_arrays_from(tuples, k) ==
    IF k > Len(tuples) THEN {[raised |-> "", arrays |-> <<>>]}
    ELSE LET rest == grid_arrays_from(tuples, k + 1)
         IN  UNION {IF a.raised # ""
                    THEN {[raised |-> a.raised, arrays |-> <<>>]}
                    ELSE {[raised |-> r.raised,
                           arrays |-> IF r.raised # "" THEN <<>>
                                      ELSE <<a.array>> \o r.arrays] : r \in rest} :
                    a \in get_array_from_tuple(tuples[k])}

\* get_input_data_array(): every outcome
get_input_data_array(self) ==
    {[raised |-> o.raised,
      arrays |-> o.arrays,
      input_data |-> IF o.raised # "" THEN <<>> ELSE itertools_product(o.arrays)] :
        o \in grid_arrays_from(grid_tuples(self), 1)}

\* data[:, 0:-1]
without_last_column(rows) ==
    AsSeq([r \in 1..Len(rows) |-> SubSeq(rows[r], 1, Len(rows[r]) - 1)])

\* the shape (rows, columns) two arrays are compared with: np.atleast_2d of
\* an empty file is one row of no columns, and the empty input_data, of
\* shape (0,), is broadcast as one row of no columns
np_shape(rows) ==
    IF rows = <<>> THEN <<1, 0>> ELSE <<Len(rows), Len(rows[1])>>

\* two lengths of one axis can be broadcast
np_broadcastable(n, m) == n = m \/ n = 1 \/ m = 1

\* the position on an axis of length n that position i of the broadcast
\* array is taken from
np_broadcast_index(i, n) == IF n = 1 THEN 1 ELSE i

\* np.all(a == b): with shapes that cannot be broadcast the comparison is
\* the scalar False (numpy up to 1.16, the last for Python 2); else every
\* element of the broadcast arrays is compared
np_all_equal(a, b) ==
    LET sa == np_shape(a)
        sb == np_shape(b)
    IN  /\ np_broadcastable(sa[1], sb[1])
        /\ np_broadcastable(sa[2], sb[2])
        /\ \A r \in 1..(IF sa[1] = 1 THEN sb[1] ELSE sa[1]) :
              \A c \in 1..(IF sa[2] = 1 THEN sb[2] ELSE sa[2]) :
                 a[np_broadcast_index(r, sa[1])][np_broadcast_index(c, sa[2])]
                     = b[np_broadcast_index(r, sb[1])][np_broadcast_index(c, sb[2])]

\* the test passes for every file
grid_old_data_is_okay_to_use_AnyFile(file, inp) ==
    file.exists

\* GridSearch.check_old_data_is_okay_to_use: the old data, or False
grid_old_data_is_okay_to_use(file, inp) ==
    /\ file.exists
    /\ np_all_equal(without_last_column(file.rows), inp)

\* the parameters of run_computefstatistic_single_point, in order
single_point_parameters ==
    <<"tstart", "tend", "F0", "F1", "F2", "Alpha", "Delta",
      "asini", "period", "ecc", "tp", "argp">>

\* self.search.run_computefstatistic_single_point(*vals): the values are
\* bound to the parameters by position
grid_evaluator_call(self, vals) ==
    [search |-> IF self.cls = "GridSearch" THEN "ComputeFstat"
                ELSE "SemiCoherentGlitchSearch",
     method |-> "run_computefstatistic_single_point",
     args |-> AsSeq([k \in 1..Len(vals) |->
                        [name |-> single_point_parameters[k], val |-> vals[k]]])]

\* "if counter > self.write_after"
write_is_due(cnt, write_after) == cnt > write_after

\* np.savetxt(self.out_file, data, delimiter=' ')
np_savetxt(rows) == [exists |-> TRUE, rows |-> rows]

(***************************************************************************)
(* SpecGrid: Init draws the class, the grids of F0 and F1, write_after     *)
(* and what is at self.out_file: nothing, the result of an earlier run of  *)
(* the same grid, or the result of another grid.                           *)
(***************************************************************************)
MaxGridVal == 2

MaxWriteAfter == 2

\* the grids of F0: one value, or a triple min <= max with a step of 0 or 1
GridF0s ==
    {<<5>>} \cup {<<lo, hi, step>> : lo \in (0 - 1)..MaxGridVal,
                                    hi \in (0 - 1)..MaxGridVal,
                                    step \in 0..1}

GridF1s == {<<7>>, <<0, 0, 0>>, <<30, 31, 1>>}

GridInput(cls, f0s, f1s, write_after) ==
    [cls |-> cls, tstart |-> 40, tend |-> 50, F0s |-> f0s, F1s |-> f1s,
     F2s |-> <<12>>, Alphas |-> <<13>>, Deltas |-> <<14>>,
     delta_F0s |-> <<15>>, delta_F1s |-> <<16>>, tglitchs |-> <<50>>,
     write_after |-> write_after]

\* the file an earlier run of the grid has left: every row with the
\* statistic 1
grid_earlier_result(inp) ==
    np_savetxt(AsSeq([r \in 1..Len(inp) |-> inp[r] \o <<1>>]))

\* nothing, or what an earlier run has left: of the same grid, of its first
\* point alone, of a grid with one point more, of a grid of no point, or of
\* another grid of one point
GridOldFiles(self) ==
    {[exists |-> FALSE]}
        \cup {grid_earlier_result(o.input_data) :
                 o \in {o \in get_input_data_array(self) :
                           o.raised = "" /\ Len(o.input_data) > 0}}
        \cup {grid_earlier_result(<<o.input_data[1]>>) :
                 o \in {o \in get_input_data_array(self) :
                           o.raised = "" /\ Len(o.input_data) > 1}}
        \cup {grid_earlier_result(
                  Append(o.input_data,
                         [o.input_data[1] EXCEPT ![3] = MaxGridVal + 1])) :
                 o \in {o \in get_input_data_array(self) :
                           o.raised = "" /\ Len(o.input_data) > 0}}
        \cup {grid_earlier_result(<<>>)}
        \cup {grid_earlier_result(<<<<0, 0, 0, 0, 0, 0, 0>>>>)}

InitGrid ==
    /\ \E cls \in {"GridSearch", "GridGlitchSearch"}, f0s \in GridF0s,
          f1s \in GridF1s, write_after \in 0..MaxWriteAfter :
          /\ Len(f0s) = 3 => f0s[1] <= f0s[2]
          /\ gin = GridInput(cls, f0s, f1s, write_after)
          /\ out_file \in GridOldFiles(gin)
    /\ gpc = "new"
    /\ input_data = <<>>
    /\ gi = 0
    /\ data = <<>>
    /\ counter = 0
    /\ self_data = <<>>
    /\ gcalls = <<>>
    /\ gwrites = 0
    /\ ShiftIdle
    /\ SummaryIdle
    /\ SaveIdle
    /\ FstatIdle
    /\ ThetaIdle
    /\ RunIdle

\* run() up to the loop: get_input_data_array and the test of the old data
GridRunStart ==
    /\ gpc = "new"
    /\ \E o \in get_input_data_array(gin) :
          IF o.raised # ""
          THEN /\ gpc' = "error"
               /\ UNCHANGED <<input_data, self_data>>
          ELSE /\ input_data' = o.input_data
               /\ IF grid_old_data_is_okay_to_use(out_file, o.input_data)
                  THEN /\ self_data' = out_file.rows
                       /\ gpc' = "done"
                  ELSE /\ self_data' = self_data
                       /\ gpc' = "loop"
    /\ gi' = 0
    /\ counter' = 0
    /\ data' = <<>>
    /\ UNCHANGED <<gin, out_file, gcalls, gwrites, hvars, svars, cvars, fvars, tvars, rvars>>

\* one pass of "for vals in self.input_data"
GridEval ==
    /\ gpc = "loop"
    /\ gi < Len(input_data)
    /\ \E FS \in TwoFVals :
          \E vals \in {input_data[gi + 1]} :
             /\ gcalls' = Append(gcalls, grid_evaluator_call(gin, vals))
             /\ IF write_is_due(counter, gin.write_after)
                THEN /\ out_file' = np_savetxt(Append(data, vals \o <<FS>>))
                     /\ gwrites' = gwrites + 1
                     /\ counter' = 0
                     /\ data' = <<>>
                ELSE /\ data' = Append(data, vals \o <<FS>>)
                     /\ UNCHANGED <<out_file, gwrites, counter>>
    /\ gi' = gi + 1
    /\ UNCHANGED <<gin, gpc, input_data, self_data, hvars, svars, cvars, fvars, tvars, rvars>>

\* run() after the loop
GridFinish ==
    /\ gpc = "loop"
    /\ gi = Len(input_data)
    /\ out_file' = np_savetxt(data)
    /\ gwrites' = gwrites + 1
    /\ self_data' = data
    /\ gpc' = "done"
    /\ UNCHANGED <<gin, input_data, gi, data, counter, gcalls, hvars, svars, cvars, fvars,
                   tvars, rvars>>

NextGrid == GridRunStart \/ GridEval \/ GridFinish

SpecGrid == InitGrid /\ [][NextGrid]_vars

(***************************************************************************)
(* SpecSave: two searches with the same pickle path, each in a process of  *)
(* its own, call save_data; the calls are taken step by step (the test     *)
(* os.path.isfile, os.rename, open(.., "wb"), the end of pickle.dump), the  *)
(* steps of the two interleave, and a process can die inside a call.  A    *)
(* search constructed with args.clean renames the pickle as well.  A file  *)
(* is known by its inode: a rename moves the inode to the ".old" path, a   *)
(* process that has the file open goes on writing to the same inode.       *)
(***************************************************************************)
MaxSaves == 2

\* the searches (processes) that share the pickle path
Searches == {1, 2}

\* open(self.pickle_path, "wb") of an existing file: it is truncated, and
\* what an unfinished writer had put into it is gone
truncated_by(p, k) ==
    [by |-> <<p, k>>, state |-> "partial", writers |-> {p}, shared |-> FALSE]

\* open(self.pickle_path, "wb"), seen from the inodes: a new inode when the
\* path is free, else the inode at the path truncated; a file another
\* process is still writing to is from now on written to by both
open_wb(inodes, path, p, k) ==
    IF path = 0
    THEN [inodes |-> Append(inodes, truncated_by(p, k)), path |-> Len(inodes) + 1]
    ELSE [inodes |-> [inodes EXCEPT ![path] =
                         [truncated_by(p, k) EXCEPT
                             !.writers = inodes[path].writers \cup {p},
                             !.shared = inodes[path].writers # {}]],
          path |-> path]

\* the states of a file when pickle.dump of p has ended and the file is
\* closed: still being written while another process has it open; complete
\* if p alone wrote to it; if two wrote to it at once from offset 0, the
\* bytes of either at every position, which is a pickle or is not
closed_states(inode, p) ==
    IF inode.writers \ {p} # {} THEN {"partial"}
    ELSE IF inode.shared THEN {"complete", "mixed"}
    ELSE {"complete"}

\* os.rename(self.pickle_path, self.pickle_path+".old") raises OSError when
\* there is no file at the path
rename_raises(path) == path = 0

\* another search is inside save_data
another_is_saving(pcs, p) ==
    \E q \in Searches \ {p} : pcs[q] \in {"rename", "open", "write"}

InitSave ==
    /\ ck_inodes = <<>>
    /\ ck_path = 0
    /\ ck_old = 0
    /\ ck_pc = [p \in Searches |-> "idle"]
    /\ ck_handle = [p \in Searches |-> 0]
    /\ ck_n = [p \in Searches |-> 0]
    /\ ck_hist = [on |-> TRUE, first_done |-> FALSE, overlap |-> FALSE,
                  crashed |-> FALSE, cleaned |-> FALSE, raised |-> {},
                  last |-> <<0, 0>>]
    /\ ShiftIdle
    /\ SummaryIdle
    /\ GridIdle
    /\ FstatIdle
    /\ ThetaIdle
    /\ RunIdle

\* "if os.path.isfile(self.pickle_path):"
SaveTest ==
    /\ \E p \in Searches :
          /\ ck_pc[p] = "idle"
          /\ ck_n[p] < MaxSaves
          /\ ck_n' = [ck_n EXCEPT ![p] = ck_n[p] + 1]
          /\ ck_pc' = [ck_pc EXCEPT ![p] = IF ck_path # 0 THEN "rename" ELSE "open"]
          /\ ck_hist' = [ck_hist EXCEPT
                            !.overlap = ck_hist.overlap \/ another_is_saving(ck_pc, p)]
    /\ UNCHANGED <<ck_inodes, ck_path, ck_old, ck_handle, hvars, svars, gvars, fvars,
                   tvars, rvars>>

\* "os.rename(self.pickle_path, self.pickle_path+'.old')"
SaveRename ==
    /\ \E p \in Searches :
          /\ ck_pc[p] = "rename"
          /\ IF rename_raises(ck_path)
             THEN /\ ck_pc' = [ck_pc EXCEPT ![p] = "error"]
                  /\ ck_hist' = [ck_hist EXCEPT !.raised = ck_hist.raised \cup {p}]
                  /\ UNCHANGED <<ck_path, ck_old>>
             ELSE /\ ck_old' = ck_path
                  /\ ck_path' = 0
                  /\ ck_pc' = [ck_pc EXCEPT ![p] = "open"]
                  /\ UNCHANGED ck_hist
    /\ UNCHANGED <<ck_inodes, ck_handle, ck_n, hvars, svars, gvars, fvars, tvars, rvars>>

\* "with open(self.pickle_path, 'wb') as File:"
SaveOpen ==
    /\ \E p \in Searches :
          /\ ck_pc[p] = "open"
          /\ \E o \in {open_wb(ck_inodes, ck_path, p, ck_n[p])} :
                /\ ck_inodes' = o.inodes
                /\ ck_path' = o.path
                /\ ck_handle' = [ck_handle EXCEPT ![p] = o.path]
          /\ ck_pc' = [ck_pc EXCEPT ![p] = "write"]
    /\ UNCHANGED <<ck_old, ck_n, ck_hist, hvars, svars, gvars, fvars, tvars, rvars>>

\* the end of "pickle.dump(d, File)" and of the with block
SaveClose ==
    /\ \E p \in Searches :
          /\ ck_pc[p] = "write"
          /\ \E i \in {ck_handle[p]} :
                \E st \in closed_states(ck_inodes[i], p) :
                   ck_inodes' = [ck_inodes EXCEPT
                                    ![i].state = st,
                                    ![i].by = <<p, ck_n[p]>>,
                                    ![i].writers = ck_inodes[i].writers \ {p}]
          /\ ck_handle' = [ck_handle EXCEPT ![p] = 0]
          /\ ck_pc' = [ck_pc EXCEPT ![p] = "idle"]
          /\ ck_hist' = [ck_hist EXCEPT !.first_done = TRUE, !.last = <<p, ck_n[p]>>]
    /\ UNCHANGED <<ck_path, ck_old, ck_n, hvars, svars, gvars, fvars, tvars, rvars>>

\* the process of a search dies inside save_data, after the rename; the
\* script is started again later
SaveCrash ==
    /\ \E p \in Searches :
          /\ ck_pc[p] \in {"open", "write"}
          /\ ck_inodes' = IF ck_pc[p] = "write"
                          THEN [ck_inodes EXCEPT
                                   ![ck_handle[p]].writers =
                                       ck_inodes[ck_handle[p]].writers \ {p}]
                          ELSE ck_inodes
          /\ ck_handle' = [ck_handle EXCEPT ![p] = 0]
          /\ ck_pc' = [ck_pc EXCEPT ![p] = "idle"]
          /\ ck_hist' = [ck_hist EXCEPT !.crashed = TRUE]
    /\ UNCHANGED <<ck_path, ck_old, ck_n, hvars, svars, gvars, fvars, tvars, rvars>>

\* __init__: "if args.clean and os.path.isfile(self.pickle_path):
\* os.rename(self.pickle_path, self.pickle_path+'.old')"
SaveClean ==
    /\ ck_path # 0
    /\ \E p \in Searches :
          /\ ck_pc[p] = "idle"
          /\ ck_n[p] < MaxSaves
          /\ ck_hist' = [ck_hist EXCEPT
                            !.cleaned = TRUE,
                            !.overlap = ck_hist.overlap \/ another_is_saving(ck_pc, p)]
    /\ ck_old' = ck_path
    /\ ck_path' = 0
    /\ UNCHANGED <<ck_inodes, ck_pc, ck_handle, ck_n, hvars, svars, gvars, fvars, tvars,
                   rvars>>

NextSave ==
    \/ SaveTest
    \/ SaveRename
    \/ SaveOpen
    \/ SaveClose
    \/ SaveCrash
    \/ SaveClean

SpecSave == InitSave /\ [][NextSave]_vars

(***************************************************************************)
(* Claims on compute_nglitch_fstat (checked under SpecFstat).              *)
(***************************************************************************)
\* the vector of evaluator call k
CallVec(k) == <<fcalls[k].args.F0, fcalls[k].args.F1, fcalls[k].args.F2>>

\* the boundaries [tstart, t_1, ..., t_nglitch, tend] of the call's input
ClaimBoundaries ==
    <<fin.tstart>>
        \o AsSeq([k \in 1..fin.nglitch |-> fin.args[2 * fin.nglitch + k]])
        \o <<fin.tend>>

\* the jump vector of glitch i (1..nglitch)
ClaimJump(i) == NumVec(<<fin.args[i], fin.args[fin.nglitch + i], 0>>)

\* C5: for every segment i > 0 the vector handed to the evaluator is
\* shift(shift(prev, t_i - tref) + jump_i, tref - t_i), t_i = tboundaries[i]
\* being the glitch epoch at which segment i starts and prev the vector of
\* segment i-1, and it is handed over with the interval
\* (tboundaries[i], tboundaries[i+1]).
C5_SegmentVectorShiftedAtItsStart ==
    fpc = "done" =>
        \A k \in 2..Len(fcalls) :
            LET i == k - 1
                t_i == ClaimBoundaries[i + 1]
                atGlitch == shift_coefficients(CallVec(k - 1), t_i - fin.tref)
            IN  /\ CallVec(k) =
                       shift_coefficients(VecAdd(atGlitch, ClaimJump(i)),
                                          fin.tref - t_i)
                /\ fcalls[k].args.tstart = ClaimBoundaries[i + 1]
                /\ fcalls[k].args.tend = ClaimBoundaries[i + 2]

ClaimKeyCount(k) ==
    IF tin.cls = "MCMCGlitchSearch" /\ k \in {"delta_F0", "delta_F1", "tglitch"}
    THEN tin.nglitch ELSE 1

\* how often a key occurs in the canonical list
ClaimCanonicalCount(k) ==
    Cardinality({p \in 1..Len(full_theta_keys(tin)) : full_theta_keys(tin)[p] = k})

\* canonical keys the prior dictionary does not hold
ClaimMissing ==
    {k \in SeqSet(full_theta_keys(tin)) : k \notin DOMAIN theta_prior}

\* keys of the prior dictionary, counted at least once, that are not canonical
ClaimExtra ==
    {k \in DOMAIN theta_prior :
        ClaimKeyCount(k) > 0 /\ k \notin SeqSet(full_theta_keys(tin))}

ClaimKeySetsEqual ==
    \A k \in DOMAIN theta_prior \cup SeqSet(full_theta_keys(tin)) :
        (IF k \in DOMAIN theta_prior THEN ClaimKeyCount(k) ELSE 0)
            = ClaimCanonicalCount(k)

ClaimAllTypesRecognised ==
    \A k \in DOMAIN theta_prior : theta_prior[k].kind \in {"number", "dict"}

ClaimUnpacked == tpc \in {"ready", "error"}

\* C7 as stated: unpack_input_theta raises if and only if the key set of the
\* prior (glitch keys counted nglitch times) differs from the canonical list;
\* whenever a canonical key is missing the error names the missing keys;
\* it fails on a key the canonical list does not contain and succeeds
\* otherwise.
C7_RaisesIffKeySetsDiffer ==
    ClaimUnpacked =>
        /\ (terr # NoError) <=> ~ClaimKeySetsEqual
        /\ ClaimMissing # {} =>
              /\ terr.what = "missing keys"
              /\ SeqSet(terr.keys) = ClaimMissing
        /\ ClaimExtra # {} => terr # NoError

\* C7 amended: a value that is neither a number nor a dictionary raises
\* whatever the keys are; for priors whose values are all numbers or
\* dictionaries, unpack_input_theta raises if and only if the key sets
\* differ, the error names exactly the missing keys when keys are missing
\* and no non-canonical key is present, and names a non-canonical key (the
\* list.index failure) when one is present, even if canonical keys are
\* missing as well.
C7_RaisesIffKeySetsDifferForRecognisedTypes ==
    ClaimUnpacked =>
        /\ ~ClaimAllTypesRecognised => terr # NoError
        /\ ClaimAllTypesRecognised =>
              /\ (terr # NoError) <=> ~ClaimKeySetsEqual
              /\ (ClaimMissing # {} /\ ClaimExtra = {}) =>
                    /\ terr.what = "missing keys"
                    /\ SeqSet(terr.keys) = ClaimMissing
              /\ ClaimExtra # {} =>
                    /\ terr.what = "is not in list"
                    /\ SeqSet(terr.keys) \subseteq ClaimExtra
                    /\ Len(terr.keys) = 1

\* MCMCSearch without binary keys, F2 left out: the error names F2
C7_Witness ==
    /\ tpc = "error"
    /\ tin.cls = "MCMCSearch" /\ ~tin.binary
    /\ DOMAIN theta_prior = {"tstart", "tend", "F0", "F1", "Alpha", "Delta"}
    /\ terr.what = "missing keys"
    /\ terr.keys = <<"F2">>

\* C8: for every nglitch and every choice of free keys,
\* MCMCGlitchSearch.unpack_input_theta finishes with theta_idxs strictly
\* increasing (so without duplicates), every theta_idxs[k] a position of the
\* canonical list whose key is theta_keys[k]; with nglitch = 2 and tglitch
\* free the two tglitch instances have two distinct increasing indices.
C8_ThetaIdxsStrictlyIncreasing ==
    (tpc = "ready" /\ tin.cls = "MCMCGlitchSearch") =>
        LET full == full_theta_keys(tin)
        IN  /\ Len(theta_idxs) = Len(theta_keys)
            /\ \A k \in 1..(Len(theta_idxs) - 1) : theta_idxs[k] < theta_idxs[k + 1]
            /\ \A k, l \in 1..Len(theta_idxs) :
                  k # l => theta_idxs[k] # theta_idxs[l]
            /\ \A k \in 1..Len(theta_idxs) :
                  /\ theta_idxs[k] \in 0..(Len(full) - 1)
                  /\ full[theta_idxs[k] + 1] = theta_keys[k]
            /\ (tin.nglitch = 2 /\ "tglitch" \in DOMAIN theta_prior
                    /\ theta_prior["tglitch"].kind = "dict") =>
                  \E k \in 1..(Len(theta_idxs) - 1) :
                     /\ theta_keys[k] = "tglitch" /\ theta_keys[k + 1] = "tglitch"
                     /\ theta_idxs[k] = 9 /\ theta_idxs[k + 1] = 10

\* three glitches, delta_F0 and tglitch free: two passes of the loop are
\* needed to separate the three instances of each key
C8_Witness ==
    /\ tpc = "ready"
    /\ tin.cls = "MCMCGlitchSearch" /\ tin.nglitch = 3
    /\ theta_keys = <<"delta_F0", "delta_F0", "delta_F0",
                      "tglitch", "tglitch", "tglitch">>
    /\ theta_idxs = <<5, 6, 7, 11, 12, 13>>

\* C9: every logl call passes the canonical full vector in which slot
\* theta_idxs[j] holds theta[j] for every free dimension j and every other
\* slot holds the fixed value of the prior, whatever the earlier proposals
\* were.
C9_LoglPassesFullVector ==
    ncalls > 0 =>
        LET full == full_theta_keys(tin)
        IN  /\ Len(logl_args) = Len(full)
            /\ Len(logl_theta) = Len(theta_idxs)
            /\ \A j \in 1..Len(theta_idxs) :
                  logl_args[theta_idxs[j] + 1] = logl_theta[j]
            /\ \A s \in 1..Len(full) :
                  (s - 1) \notin SeqSet(theta_idxs) =>
                      /\ theta_prior[full[s]].kind = "number"
                      /\ logl_args[s] = theta_prior[full[s]].val

\* the second logl call of a two-glitch search with F1 and tglitch free
C9_Witness ==
    /\ ncalls = 2
    /\ tin.cls = "MCMCGlitchSearch" /\ tin.nglitch = 2
    /\ theta_keys = <<"F1", "tglitch", "tglitch">>
    /\ logl_theta = <<21, 22, 23>>
    /\ logl_args = <<FixedVal("F0"), 21, FixedVal("F2"), FixedVal("Alpha"),
                     FixedVal("Delta"), FixedVal("delta_F0"), FixedVal("delta_F0"),
                     FixedVal("delta_F1"), FixedVal("delta_F1"), 22, 23>>

(***************************************************************************)
(* Claims on logp (checked under SpecLogp).                                *)
(***************************************************************************)
\* the two glitch epochs of the proposal: its last two entries, tglitch
\* being the last key of the canonical list
ClaimEpochsProposed ==
    /\ tpc = "ready"
    /\ logp_theta # NoTheta
    /\ tin.cls = "MCMCGlitchSearch" /\ tin.nglitch = 2
    /\ Len(theta_keys) >= 2
    /\ theta_keys[Len(theta_keys) - 1] = "tglitch"
    /\ theta_keys[Len(theta_keys)] = "tglitch"

ClaimEpochsAdmissible(t1, t2) ==
    /\ tin.tstart < t1 /\ t1 < t2 /\ t2 < tin.tend
    /\ t1 - tin.tstart >= tin.dtglitchmin
    /\ t2 - t1 >= tin.dtglitchmin
    /\ tin.tend - t2 >= tin.dtglitchmin

\* C4: in MCMCGlitchSearch with nglitch = 2, logp returns -infinity for every
\* proposal whose glitch epochs (t1, t2) do not satisfy
\* tstart < t1 < t2 < tend with each of the gaps t1 - tstart, t2 - t1 and
\* tend - t2 at least dtglitchmin.
C4_LogpRejectsInadmissibleEpochs ==
    ClaimEpochsProposed =>
        LET t1 == logp_theta[Len(logp_theta) - 1]
            t2 == logp_theta[Len(logp_theta)]
        IN  ~ClaimEpochsAdmissible(t1, t2) => logp_ret = "neginf"

(***************************************************************************)
(* Claims on run() and the pickled checkpoint (checked under Spec).        *)
(***************************************************************************)
\* run() returned after loading the pickle
ClaimLoaded == pc = "done" /\ Len(trace) = 1 /\ trace[1].ev = "load"

\* run() skipped all sampling and holds the payload of the file unchanged
ClaimRunSkipped ==
    /\ ClaimLoaded
    /\ nevals = 0
    /\ ctor_file.exists
    /\ samples = ctor_file.samples
    /\ lnprobs = ctor_file.lnprobs
    /\ lnlikes = ctor_file.lnlikes
    /\ pickle = ctor_file

\* run() returned after sampling
ClaimResampled ==
    /\ pc = "done"
    /\ nevals > 0
    /\ \E i \in 1..Len(trace) : trace[i].ev = "step"
    /\ trace[Len(trace)].ev = "save"

\* the six fingerprint fields stored in the file equal the current ones
ClaimStoredEqualsCurrent(file) ==
    /\ file.d.nsteps = tin.nsteps
    /\ file.d.nwalkers = tin.nwalkers
    /\ file.d.ntemps = tin.ntemps
    /\ file.d.theta_keys = theta_keys
    /\ file.d.theta_prior = theta_prior
    /\ file.d.scatter_val = tin.scatter_val

\* C1 as stated: run() skips all sampling and loads the stored samples,
\* log-probabilities and log-likelihoods unchanged if a checkpoint exists
\* whose stored nsteps, nwalkers, ntemps, theta_keys, theta_prior and
\* scatter_val all equal the current ones; if any one of them differs,
\* run() re-samples.
C1_ReuseIffFingerprintEqual ==
    pc = "done" =>
        /\ (ctor_file.exists /\ ClaimStoredEqualsCurrent(ctor_file)) => ClaimRunSkipped
        /\ (ctor_file.exists /\ ~ClaimStoredEqualsCurrent(ctor_file)) => ClaimResampled

\* the checkpoint the constructor found (after the rename of the clean
\* option) is not older than the oldest SFT file and its fingerprint equals
\* the current one
ClaimUsable ==
    /\ ctor_file.exists
    /\ ctor_file.mtime >= ctor_sft
    /\ ClaimStoredEqualsCurrent(ctor_file)

\* C1 amended: the decision is taken when the search is constructed; run()
\* skips all sampling and loads the stored payload unchanged if and only if
\* the constructor found a checkpoint that is not older than the oldest
\* matching SFT file and whose six stored fingerprint fields equal the
\* current ones; in every other case, so whenever one of the fields
\* differs, run() re-samples.
C1_ReuseIffFreshAndFingerprintEqual ==
    /\ pc = "constructed" => (old_data_is_okay_to_use <=> ClaimUsable)
    /\ pc = "done" =>
          /\ ClaimUsable => ClaimRunSkipped
          /\ ~ClaimUsable => ClaimResampled

\* the second search object loads what the first one sampled and saved
C1_Witness ==
    /\ ClaimRunSkipped
    /\ nobj = 2
    /\ Len(samples) = 2
    /\ samples[1].obj = 1

\* C2: the reuse decision compares every configuration field: when the
\* checkpoint was saved by a search of which any constructor argument
\* (tref, tstart, tend, nglitch, dtglitchmin, theta_initial, betas, binary,
\* the prior, nsteps, nwalkers, ntemps, scatter_val) differs from the
\* current one, run() re-samples.
C2_AnyChangedFieldForcesResampling ==
    (pc = "done" /\ ctor_file.exists /\ ctor_file.saved_by # tin) => ClaimResampled

\* what an entry of the history is, without the value sampled
ClaimShape(e) == <<e.ev, e.stage, e.k>>

ClaimSteps(j, n) == AsSeq([i \in 1..n |-> <<"step", j, i - 1>>])

\* the initialisation stages j, j+1, .. of the list
RECURSIVE ClaimInitStages(_, _)
ClaimInitStages(nsteps, j) ==
    IF j > Len(nsteps) - 3 THEN <<>>
    ELSE ClaimSteps(j, nsteps[j + 1]) \o <<<<"new_p0", j, 0>>, <<"reset", j, 0>>>>
             \o ClaimInitStages(nsteps, j + 1)

\* what a run() that samples does, in order
ClaimExpected(nsteps) ==
    LET term == Len(nsteps) - 2
    IN  ClaimInitStages(nsteps, 0)
            \o ClaimSteps(term, nsteps[Len(nsteps) - 1] + nsteps[Len(nsteps)])
            \o <<<<"save", term, 0>>>>

ClaimIsPrefix(s, t) ==
    Len(s) <= Len(t) /\ \A i \in 1..Len(s) : s[i] = t[i]

ClaimTerminalSteps(nsteps) == nsteps[Len(nsteps) - 1] + nsteps[Len(nsteps)]

\* C3: when the checkpoint is not reused, run() executes exactly
\* len(nsteps) - 2 initialisation stages in list order, stage j running
\* nsteps[j] sampler steps followed by the regeneration of the walkers and
\* the reset of the sampler, then exactly one terminal stage of
\* nsteps[-2] + nsteps[-1] steps with no reset; the sampler is not run after
\* the terminal stage and the checkpoint is saved only after it.
C3_StagesInOrder ==
    LET done == AsSeq([i \in 1..Len(trace) |-> ClaimShape(trace[i])])
    IN  /\ (pc = "sampling" \/ (pc = "failed" /\ tpc = "ready")) =>
              /\ ClaimIsPrefix(done, ClaimExpected(tin.nsteps))
              /\ Len(done) < Len(ClaimExpected(tin.nsteps))
              /\ pickle = ctor_file
        /\ (pc = "done" /\ ~ClaimLoaded) =>
              /\ done = ClaimExpected(tin.nsteps)
              /\ pickle.exists /\ pickle.saved_by = tin
              /\ istep = ClaimTerminalSteps(tin.nsteps)

\* two initialisation stages of 2 and 1 steps, then the terminal stage
C3_Witness ==
    /\ pc = "done"
    /\ tin.nsteps = <<2, 1, 0, 1>>
    /\ Len(trace) = 9
    /\ trace[2].ev = "step" /\ trace[2].stage = 0 /\ trace[2].k = 1
    /\ trace[3].ev = "new_p0" /\ trace[4].ev = "reset"
    /\ trace[5].ev = "step" /\ trace[5].stage = 1
    /\ trace[7].ev = "reset" /\ trace[7].stage = 1
    /\ trace[8].ev = "step" /\ trace[8].stage = 2
    /\ trace[9].ev = "save"

\* the value the sampler produced in step k of stage j
ClaimProduced(j, k) ==
    trace[CHOOSE i \in 1..Len(trace) :
              trace[i].ev = "step" /\ trace[i].stage = j /\ trace[i].k = k]

\* C10: after a run() that sampled, samples, lnprobs and lnlikes consist of
\* exactly the last nprod steps of every walker of temperature 0 of the
\* terminal stage: nwalkers * nprod entries, none from the burn-in steps,
\* an initialisation stage or a hotter temperature, NaN and infinite values
\* kept as they are.
C10_SampleSetIsProductionOfColdestChain ==
    (pc = "done" /\ ~ClaimLoaded) =>
        LET nprod == tin.nsteps[Len(tin.nsteps)]
            nburn == tin.nsteps[Len(tin.nsteps) - 1]
            term == Len(tin.nsteps) - 2
        IN  /\ Len(samples) = tin.nwalkers * nprod
            /\ Len(lnprobs) = tin.nwalkers * nprod
            /\ Len(lnlikes) = tin.nwalkers * nprod
            /\ \A w \in 0..(tin.nwalkers - 1) : \A s \in 1..nprod :
                  LET i == w * nprod + s
                      k == nburn + s - 1
                  IN  /\ samples[i] = [obj |-> nobj, stage |-> term, k |-> k,
                                       temp |-> 0, walker |-> w]
                      /\ lnlikes[i] = chain_lnlike(ClaimProduced(term, k), 0, w)
                      /\ lnprobs[i] = chain_lnprob(ClaimProduced(term, k), 0, w)

\* an initialisation stage, a burn-in step and a production step whose
\* log-likelihood is NaN for walker 0, two temperatures
C10_Witness ==
    /\ pc = "done" /\ ~ClaimLoaded
    /\ tin.nsteps = <<1, 1, 1>>
    /\ Len(samples) = 2
    /\ samples[2] = [obj |-> nobj, stage |-> 1, k |-> 1, temp |-> 0, walker |-> 1]
    /\ lnlikes[1] = NaN
    /\ lnlikes[2] = Fin(1)
    /\ trace[1].val = Fin(5) /\ trace[4].val = NegInf

(***************************************************************************)
(* C14: the shift is inverted by the opposite shift.                       *)
(***************************************************************************)
ClaimIdentity(n) ==
    AsSeq([i \in 1..n |-> AsSeq([j \in 1..n |-> IF i = j THEN Num(1) ELSE <<>>])])

\* the entry [i, j] of the matrix product a.b, summed from k on
RECURSIVE ClaimDotEntry(_, _, _, _, _)
ClaimDotEntry(a, b, i, j, k) ==
    IF k > Len(b) THEN <<>>
    ELSE NAdd(NMul(a[i][k], b[k][j]), ClaimDotEntry(a, b, i, j, k + 1))

ClaimMatMul(a, b) ==
    AsSeq([i \in 1..Len(a) |->
              AsSeq([j \in 1..Len(a) |-> ClaimDotEntry(a, b, i, j, 1)])])

\* C14: for every vector length n in 1..7, every vector theta of length n
\* and every dT (0 included), shift_coefficients(shift_coefficients(theta,
\* dT), -dT) equals theta, and shift_matrix(n, dT) multiplied by
\* shift_matrix(n, -dT) is the n-by-n identity matrix.
C14_ShiftInvertible ==
    sh_pc = "back" =>
        LET n == Len(sh_in.theta)
        IN  /\ sh_out = NumVec(sh_in.theta)
            /\ ClaimMatMul(shift_matrix(n, sh_in.dT), shift_matrix(n, 0 - sh_in.dT))
                   = ClaimIdentity(n)

\* a vector of seven coefficients, the first zero and the last ones not,
\* shifted by -2 and back
C14_Witness ==
    /\ sh_pc = "back"
    /\ Len(sh_in.theta) = 7
    /\ sh_in.dT = 0 - 2
    /\ sh_in.theta[1] = 0 /\ sh_in.theta[6] = 3 /\ sh_in.theta[7] = 3
    /\ sh_out = NumVec(sh_in.theta)

(***************************************************************************)
(* C13 and C15: the glitch at tend, and what the shift is applied to.      *)
(***************************************************************************)
ClaimSingleGlitchAtTend ==
    /\ fpc \in {"done", "single"}
    /\ fin.nglitch = 1
    /\ fin.args[3] = fin.tend

\* C13: with a single glitch whose epoch equals tend, compute_nglitch_fstat
\* (nglitch = 1) and compute_glitch_fstat_single call the evaluator exactly
\* once, on [tstart, tend] with the unshifted vector, and return exactly
\* that value; there is no second call on [tend, tend].
C13_GlitchAtTendEvaluatedOnce ==
    ClaimSingleGlitchAtTend =>
        /\ Len(fcalls) = 1
        /\ fcalls[1].args.tstart = fin.tstart
        /\ fcalls[1].args.tend = fin.tend
        /\ <<fcalls[1].args.F0, fcalls[1].args.F1, fcalls[1].args.F2>>
               = NumVec(<<fin.F0, fin.F1, fin.F2>>)
        /\ fresult = fcalls[1].ret

\* the method that ran
ClaimCaller ==
    IF fpc = "single" THEN "compute_glitch_fstat_single" ELSE "compute_nglitch_fstat"

\* C15: every vector compute_nglitch_fstat and compute_glitch_fstat_single
\* pass to shift_coefficients has the phase as element 0 and the frequency
\* as element 1, so the 2*pi-scaled row 0 of the shift matrix never produces
\* a frequency: the frequency the evaluator is given has no 2*pi-scaled
\* part.
C15_ShiftedVectorStartsWithPhase ==
    (fpc \in {"done", "single"} /\ fin.nglitch >= 1) =>
        /\ shifted_vector(ClaimCaller)[1] = "phi"
        /\ shifted_vector(ClaimCaller)[2] = "F0"
        /\ \A k \in 1..Len(fcalls) : Len(fcalls[k].args.F0) <= 1

(***************************************************************************)
(* C16 and C17: the summaries of the sample set.                           *)
(***************************************************************************)
\* the rows (1-based) whose log-likelihood is finite
ClaimFiniteRows == {r \in 1..Len(sm_in.lnlikes) : sm_in.lnlikes[r].kind = "fin"}

\* the largest finite log-likelihood
ClaimMaxFinite ==
    CHOOSE v \in {sm_in.lnlikes[r].val : r \in ClaimFiniteRows} :
        \A r \in ClaimFiniteRows : sm_in.lnlikes[r].val <= v

\* the rows whose finite log-likelihood is within the threshold of the maximum
ClaimCloseRows ==
    {r \in ClaimFiniteRows :
        default_threshold[2] * Abs(ClaimMaxFinite - sm_in.lnlikes[r].val)
            < default_threshold[1] * Abs(ClaimMaxFinite)}

\* the rows of R in ascending order, from row r on
RECURSIVE ClaimRowsOf(_, _, _)
ClaimRowsOf(col, R, r) ==
    IF r > Len(col) THEN <<>>
    ELSE (IF r \in R THEN <<col[r]>> ELSE <<>>) \o ClaimRowsOf(col, R, r + 1)

\* the suffix that tells the instances of a repeated key apart
ClaimSuffix(keys, i) ==
    LET before == Cardinality({j \in 1..(i - 1) : keys[j] = keys[i]})
    IN  IF before = 0 THEN "" ELSE IF before = 1 THEN "_1" ELSE "_2"

\* C16: get_max_twoF returns the largest finite log-likelihood of the sample
\* set and the sample stored at the same position, also when NaN or infinite
\* values occur at other positions, and each standard deviation is computed
\* over exactly the samples whose finite likelihood lies within the relative
\* threshold (5%) of that maximum.
C16_MaxTwoFIsLargestFiniteLikelihood ==
    (sm_pc = "done" /\ sm_out.method = "get_max_twoF" /\ ClaimFiniteRows # {}) =>
        LET keys == sm_in.theta_keys
        IN  /\ sm_out.raised = ""
            /\ sm_out.maxtwoF = Fin(ClaimMaxFinite)
            /\ \E r \in ClaimFiniteRows :
                  /\ sm_in.lnlikes[r] = Fin(ClaimMaxFinite)
                  /\ \A i \in 1..Len(keys) :
                        sm_out.d[<<keys[i], ClaimSuffix(keys, i), "">>].val
                            = sm_in.samples[r][i]
            /\ \A i \in 1..Len(keys) :
                  sm_out.d[<<keys[i], ClaimSuffix(keys, i), "_std">>]
                      = np_std(ClaimRowsOf(samples_column(sm_in.samples, i - 1),
                                           ClaimCloseRows, 1))

\* C17: get_median_stds returns, for every free dimension of the sample set,
\* its own median entry and its own standard-deviation entry over all
\* production samples: 2 * ndim entries, one pair per glitch instance when
\* a glitch key occupies several free dimensions.
C17_MedianStdsHoldOnePairPerDimension ==
    (sm_pc = "done" /\ sm_out.method = "get_median_stds") =>
        LET keys == sm_in.theta_keys
        IN  /\ Cardinality(DOMAIN sm_out.d) = 2 * Len(keys)
            /\ \A i \in 1..Len(keys) :
                  /\ \E k \in DOMAIN sm_out.d :
                        /\ k[1] = keys[i] /\ k[3] = ""
                        /\ sm_out.d[k] = np_median(samples_column(sm_in.samples, i - 1))
                  /\ \E k \in DOMAIN sm_out.d :
                        /\ k[1] = keys[i] /\ k[3] = "_std"
                        /\ sm_out.d[k] = np_std(samples_column(sm_in.samples, i - 1))

(***************************************************************************)
(* C18, C19 and C20: the grid searches.                                    *)
(***************************************************************************)
\* run() has gone through its loop and returned
ClaimGridEvaluated == gpc = "done" /\ gwrites > 0

\* the evaluator a grid search is to call
ClaimGridEvaluators ==
    IF gin.cls = "GridGlitchSearch"
    THEN {"compute_nglitch_fstat", "compute_glitch_fstat_single"}
    ELSE {"run_computefstatistic_single_point"}

\* C18: GridGlitchSearch.run evaluates every enumerated combination (F0, F1,
\* F2, Alpha, Delta, delta_F0, delta_F1, tglitch) through the glitch
\* segmentation evaluator with each value bound to the parameter of the same
\* name; GridSearch.run evaluates every combination (tstart, tend, F0, F1,
\* F2, Alpha, Delta) with the single-segment evaluator.
C18_GridValuesBoundByName ==
    ClaimGridEvaluated =>
        /\ Len(gcalls) = Len(input_data)
        /\ \A r \in 1..Len(gcalls) :
              /\ gcalls[r].method \in ClaimGridEvaluators
              /\ \A c \in 1..Len(grid_columns(gin)) :
                    \E a \in 1..Len(gcalls[r].args) :
                       /\ gcalls[r].args[a].name = grid_columns(gin)[c]
                       /\ gcalls[r].args[a].val = input_data[r][c]

\* the rows this run() has written to the file so far
ClaimRowsInFile == IF gwrites > 0 THEN Len(out_file.rows) ELSE 0

\* C19: during GridSearch.run the results are written to the file after
\* every write_after evaluations, so at any point of the run the file lacks
\* at most write_after of the points evaluated so far; when run() has
\* finished, the file and self.data hold one row for every grid point.
C19_FileLacksAtMostWriteAfter ==
    /\ gpc = "loop" => gi - ClaimRowsInFile <= gin.write_after
    /\ gpc = "done" =>
          /\ out_file.exists
          /\ without_last_column(out_file.rows) = input_data
          /\ without_last_column(self_data) = input_data

\* the points of a grid: one for a single value and for a triple with
\* min = max and step 0, else min, min + step, .. up to max
ClaimPointCount(x) ==
    IF Len(x) = 1 THEN 1
    ELSE IF x[3] = 0 THEN 1
    ELSE (x[2] - x[1]) \div x[3] + 1

\* the triple is a grid: min <= max, and a step of 0 only with min = max
ClaimIsGrid(x) ==
    Len(x) = 1 \/ (x[1] <= x[2] /\ (x[3] = 0 => x[1] = x[2]))

RECURSIVE ClaimProduct(_)
ClaimProduct(s) == IF s = <<>> THEN 1 ELSE Head(s) * ClaimProduct(Tail(s))

\* C20: get_input_data_array enumerates every combination of the
\* per-parameter grids exactly once: the number of rows is the product of
\* the point counts, a triple with min = max and step 0 such as (0,0,0)
\* counting as one fixed point, so (0,1,0.5) and (0,0,0) give 3 rows.
C20_RowsAreProductOfPointCounts ==
    LET tuples == grid_tuples(gin)
    IN  (gpc \in {"loop", "done", "error"}
            /\ \A k \in 1..Len(tuples) : ClaimIsGrid(tuples[k])) =>
            /\ gpc # "error"
            /\ Len(input_data) =
                  ClaimProduct(AsSeq([k \in 1..Len(tuples) |->
                                         ClaimPointCount(tuples[k])]))
            /\ \A r1, r2 \in 1..Len(input_data) :
                  input_data[r1] = input_data[r2] => r1 = r2

\* a <= b for two values that are not NaN
ClaimLeq(a, b) ==
    \/ a.kind = "neginf"
    \/ a.kind = "fin" /\ b.kind = "fin" /\ a.val <= b.val

\* the walkers of temperature 0 whose value at the last step of the chain is
\* not NaN and is not below any other value that is not NaN
ClaimHighest(ch, nwalkers, lnlike) ==
    LET last == ch[Len(ch)]
        v(w) == IF lnlike THEN chain_lnlike(last, 0, w) ELSE chain_lnprob(last, 0, w)
        ok == {w \in 0..(nwalkers - 1) : v(w).kind # "nan"}
    IN  {w \in ok : \A u \in ok : ClaimLeq(v(u), v(w))}

\* the ensemble is scattered about a walker of the set best, every walker of
\* every temperature with the relative size self.scatter_val
ClaimScatteredAbout(ens, self, ch, best) ==
    /\ ens.src = "scattered"
    /\ \E w \in best :
          /\ ens.about = chain_position(ch[Len(ch)], 0, w)
          /\ Len(ens.p0) = self.ntemps
          /\ \A j \in 1..self.ntemps :
                /\ Len(ens.p0[j]) = self.nwalkers
                /\ \A i \in 1..self.nwalkers :
                      ens.p0[j][i] = [about |-> chain_position(ch[Len(ch)], 0, w),
                                      scatter_val |-> self.scatter_val]

\* the end of an initialisation stage that is followed by the next stage
ClaimNextStage == pc = "sampling" /\ stage' = stage + 1

\* C11 as stated: the ensemble that get_new_p0 builds at the end of an
\* initialisation stage is scattered, every walker of every temperature with
\* the relative size scatter_val, about the final-step position of the walker
\* of the coldest chain with the highest log-likelihood (NaN ignored)
C11_NewEnsembleAboutHighestLikelihood ==
    [][ClaimNextStage =>
          ClaimScatteredAbout(p0', tin, chain, ClaimHighest(chain, tin.nwalkers, TRUE))]_vars

\* C11, amended: the ensemble is scattered, every walker of every temperature
\* with the relative size scatter_val, about the final-step position of the
\* walker of the coldest chain with the highest log-probability, the
\* log-likelihood plus the log-prior (NaN ignored); when every value is NaN
\* no ensemble is built and run() fails
C11_NewEnsembleAboutHighestLogProbability ==
    [][/\ ClaimNextStage =>
             ClaimScatteredAbout(p0', tin, chain,
                                 ClaimHighest(chain, tin.nwalkers, FALSE))
       /\ (pc = "sampling" /\ pc' = "failed") =>
             /\ ClaimHighest(chain, tin.nwalkers, FALSE) = {}
             /\ p0' = p0]_vars

\* a second stage began with walkers scattered about walker 1 of the coldest
\* chain, whose log-probability was the highest while walker 0 had the
\* highest log-likelihood
C11_Witness ==
    /\ pc = "sampling"
    /\ stage = 1
    /\ p0.src = "scattered"
    /\ p0.about.walker = 1
    /\ Len(trace) >= 3
    /\ trace[1].ev = "step"
    /\ trace[1].val = Fin(5)
    /\ trace[1].lnprior = 0 - 7
    /\ trace[2].ev = "new_p0"

\* C12: whenever the checkpoint file exists and a step changes it (save_data
\* writes a new one, a construction with clean removes it), the file at the
\* '.old' path is afterwards the checkpoint as it was before the step
C12_CheckpointKeptAsBackup ==
    [][(pickle.exists /\ pickle' # pickle) => pickle_old' = backup_of(pickle)]_vars

\* the second search wrote its checkpoint and the first search's checkpoint
\* is the backup
C12_Witness ==
    /\ pc = "done"
    /\ pickle.exists
    /\ pickle.written_by = 2
    /\ pickle_old.exists
    /\ pickle_old.written_by = 1
    /\ pickle_old.mtime < pickle.mtime

\* min, min + step, ..., max
ClaimPoints(x) ==
    AsSeq([k \in 1..((x[2] - x[1]) \div x[3] + 1) |-> x[1] + (k - 1) * x[3]])

\* C21: get_array_from_tuple expands every triple (min, max, step) with
\* step > 0 and max - min a whole multiple of step to the points min,
\* min + step, ..., max, the endpoint included, for positive, zero and
\* negative max alike.
C21_TripleExpandsToEndpoint ==
    gpc # "off" =>
        \A k \in 1..Len(grid_tuples(gin)) :
           \E x \in {grid_tuples(gin)[k]} :
              (Len(x) = 3 /\ x[3] > 0 /\ x[1] <= x[2] /\ (x[2] - x[1]) % x[3] = 0)
                 => get_array_from_tuple(x) = {[raised |-> "", array |-> ClaimPoints(x)]}

\* the file exists and its parameter columns are the combinations, row for row
ClaimStoredGridIs(file, inp) ==
    /\ file.exists
    /\ Len(file.rows) = Len(inp)
    /\ \A r \in 1..Len(inp) :
          /\ Len(file.rows[r]) = Len(inp[r]) + 1
          /\ \A c \in 1..Len(inp[r]) : file.rows[r][c] = inp[r][c]

\* C22: run() skips every evaluation and takes the stored rows as its result
\* if and only if the result file exists and its parameter columns equal the
\* enumerated combinations row for row; in every other case it evaluates
\* every enumerated combination, in order.
C22_ReuseIffStoredGridIsTheGrid ==
    [][/\ (gpc = "new" /\ gpc' \in {"loop", "done"}) =>
             /\ gpc' = "done" <=> ClaimStoredGridIs(out_file, input_data')
             /\ gpc' = "done" =>
                   (self_data' = out_file.rows /\ gcalls' = <<>> /\ out_file' = out_file)
       /\ (gpc = "loop" /\ gpc' = "done") =>
             /\ Len(gcalls) = Len(input_data)
             /\ \A r \in 1..Len(input_data) :
                   AsSeq([a \in 1..Len(gcalls[r].args) |-> gcalls[r].args[a].val])
                       = input_data[r]]_vars

\* a run has taken the three stored rows of an earlier run of its grid as its
\* result without an evaluation
C22_Witness ==
    /\ gpc = "done"
    /\ gwrites = 0
    /\ gcalls = <<>>
    /\ Len(input_data) = 3
    /\ self_data = out_file.rows
    /\ without_last_column(self_data) = input_data

\* the distribution types of the free parameters of the search
ClaimFreeTypes == {theta_prior[theta_keys[k]].type : k \in 1..Len(theta_keys)}

\* the four types documented as recognised
ClaimRecognisedTypes == {"unif", "norm", "halfnorm", "lognorm"}

\* C23: with every free parameter of one of the four types unif, norm,
\* halfnorm and lognorm, the initial draw (generate_rv) and the prior
\* evaluation (generic_lnprior, in logp) return; with any other type a
\* configuration error is raised, and before any sampling step is taken.
C23_FourTypesAcceptedOthersRejected ==
    (tpc = "ready" /\ pc \in {"sampling", "done", "failed"} /\ ~old_data_is_okay_to_use) =>
        /\ ClaimFreeTypes \subseteq ClaimRecognisedTypes => p0.src # "ValueError"
        /\ ~(ClaimFreeTypes \subseteq ClaimRecognisedTypes) =>
              /\ pc = "failed"
              /\ p0.src = "ValueError"
              /\ \A k \in 1..Len(trace) : trace[k].ev # "step"

\* C24 as stated: once the search object is constructed, no operation
\* changes theta_keys, theta_idxs or fixed_theta, so fixed_theta keeps the
\* placeholder zero in every free slot.
C24_LayoutAndFixedThetaReadOnly ==
    [][tpc = "ready" =>
          /\ theta_keys' = theta_keys
          /\ theta_idxs' = theta_idxs
          /\ fixed_theta' = fixed_theta
          /\ \A j \in 1..Len(theta_idxs) : fixed_theta'[theta_idxs[j] + 1] = 0]_vars

\* C24, amended: no operation changes theta_keys, theta_idxs or a slot of
\* fixed_theta that holds a fixed value; logl writes its proposal into the
\* free slots of fixed_theta, which hold the last proposal evaluated from
\* then on.
C24_LayoutReadOnlyFreeSlotsHoldLastProposal ==
    [][tpc = "ready" =>
          /\ theta_keys' = theta_keys
          /\ theta_idxs' = theta_idxs
          /\ Len(fixed_theta') = Len(fixed_theta)
          /\ \A s \in 1..Len(fixed_theta) :
                (s - 1) \notin SeqSet(theta_idxs) => fixed_theta'[s] = fixed_theta[s]
          /\ ncalls' = ncalls + 1 =>
                \A j \in 1..Len(theta_idxs) :
                   fixed_theta'[theta_idxs[j] + 1] = logl_theta'[j]
          /\ ncalls' = ncalls =>
                fixed_theta' = fixed_theta]_vars

\* after two likelihood evaluations the free slots of fixed_theta hold the
\* second proposal
C24_Witness ==
    /\ tpc = "ready"
    /\ ncalls = 2
    /\ theta_keys = <<"F0", "F1">>
    /\ logl_theta = <<21, 22>>
    /\ fixed_theta[theta_idxs[1] + 1] = 21
    /\ fixed_theta[theta_idxs[2] + 1] = 22

(***************************************************************************)
(* Claims on the steps of save_data (checked under SpecSave).              *)
(***************************************************************************)
\* no search is inside save_data
ClaimSavesAtRest == \A p \in Searches : ck_pc[p] \in {"idle", "error"}

\* the file at a path is a complete checkpoint
ClaimComplete(f) == f # 0 /\ ck_inodes[f].state = "complete"

\* C25: when the steps of the save_data calls of two searches on one path
\* interleave, in any order, every save completes without an error and the
\* checkpoint file finally holds the complete data of the search that wrote
\* last.
C25_InterleavedSavesLastWriterWins ==
    (ck_hist.on /\ ck_hist.overlap /\ ~ck_hist.crashed /\ ~ck_hist.cleaned
         /\ ClaimSavesAtRest) =>
        /\ ck_hist.raised = {}
        /\ ClaimComplete(ck_path)
        /\ ck_inodes[ck_path].by = ck_hist.last

\* C28: once a first save_data has completed, whatever saves follow one
\* after the other, and wherever between the rename and the end of the
\* write a process dies, the checkpoint file or its '.old' backup holds a
\* complete checkpoint.
C28_CompleteCheckpointSurvives ==
    (ck_hist.on /\ ck_hist.first_done /\ ~ck_hist.overlap) =>
        (ClaimComplete(ck_path) \/ ClaimComplete(ck_old))

(***************************************************************************)
(* C26: the two glitch statistics on one glitch inside the data span.      *)
(***************************************************************************)
\* one of the two methods has run on a single glitch strictly inside
\* (tstart, tend)
ClaimSingleGlitchInside ==
    /\ fpc \in {"done", "single"}
    /\ fin.nglitch = 1
    /\ fin.tstart < fin.args[3]
    /\ fin.args[3] < fin.tend

\* the calls the method that did not run makes on the same input
ClaimOtherMethodCalls ==
    IF fpc = "done" THEN single_calls(fin) ELSE fstat_calls(fin)

\* C26: for nglitch = 1 and tstart < tglitch < tend, compute_nglitch_fstat
\* makes the same evaluator calls (same intervals, same parameter vectors,
\* same order) and returns the same total as compute_glitch_fstat_single.
C26_SingleGlitchMethodsAgree ==
    ClaimSingleGlitchInside =>
        /\ Len(fcalls) = Len(ClaimOtherMethodCalls)
        /\ \A k \in 1..Len(fcalls) : fcalls[k].args = ClaimOtherMethodCalls[k]
        /\ fresult = SeqSum(AsSeq([k \in 1..Len(fcalls) |-> fcalls[k].ret]))

(***************************************************************************)
(* C27: which coordinates the ordering tests and the sort of the initial   *)
(* walkers take (checked under SpecLogp).                                  *)
(***************************************************************************)
\* logp of a search with more than one glitch has been evaluated
ClaimGlitchesProposed ==
    /\ tpc = "ready"
    /\ logp_theta # NoTheta
    /\ tin.cls = "MCMCGlitchSearch"
    /\ tin.nglitch > 1

\* C27: in MCMCGlitchSearch with nglitch > 1, whichever keys are free, the
\* coordinates that logp tests for ordering and spacing and that
\* apply_corrections_to_p0 sorts are the glitch epochs (tglitch) and no other
\* free parameter: a proposal without a free epoch is never rejected by
\* the ordering tests.
C27_OnlyGlitchEpochsTestedAndSorted ==
    ClaimGlitchesProposed =>
        /\ \A k \in 1..Len(last_nglitch_keys(tin, theta_keys)) :
              last_nglitch_keys(tin, theta_keys)[k] = "tglitch"
        /\ ("tglitch" \notin SeqSet(theta_keys)
                /\ logp_sum(logp_theta, theta_prior, theta_keys) = "finite")
              => logp_ret = "finite"

(***************************************************************************)
(* C29: the orbital parameters of a binary search (checked under           *)
(* SpecTheta).                                                             *)
(***************************************************************************)
\* C29: when MCMCSearch is constructed with binary=True, every likelihood
\* evaluation sets the orbital parameters (asini, period, ecc, tp, argp) of
\* the statistic evaluator to the values of the reconstructed full vector
\* before the statistic is computed.
C29_BinaryParametersReachEvaluator ==
    (tpc = "ready" /\ ncalls > 0 /\ tin.cls = "MCMCSearch" /\ tin.binary) =>
        /\ Len(logl_args) = 7 + Len(binary_keys)
        /\ \A k \in 1..Len(binary_keys) :
              PulsarDopplerParams_of(inititate_search_object(tin), logl_args).orbit[k]
                  = Assigned(logl_args[7 + k])

(***************************************************************************)
(* C30: get_max_twoF on a repeated glitch key (checked under SpecSummary). *)
(***************************************************************************)
\* every log-likelihood of the sample set is finite and there is a sample,
\* so that the mask is as long as the columns and a maximum exists
ClaimAllFinite ==
    Len(sm_in.lnlikes) > 0 /\ ClaimFiniteRows = 1..Len(sm_in.lnlikes)

\* the entries of the result that hold the sample of a dimension
ClaimSampleEntries == {k \in DOMAIN sm_out.d : k[3] = ""}

\* C30: get_max_twoF terminates and returns for every layout of the free
\* parameters, also when the same glitch key occurs three or more times in
\* theta_keys (nglitch >= 3 with the key free), and its result holds a
\* distinct entry for every free dimension.
C30_MaxTwoFReturnsForEveryLayout ==
    (sm_pc = "done" /\ sm_out.method = "get_max_twoF" /\ ClaimAllFinite) =>
        /\ sm_out.raised = ""
        /\ Cardinality(ClaimSampleEntries) = Len(sm_in.theta_keys)

=============================================================================
